---- MODULE Spec2Model ----
(***************************************************************************)
(* docstrap: DocumentationManager.create_structure and the components it   *)
(* drives (DirectoryMigrator, the three FileHandler classes and            *)
(* FilenameFormatter), as a state machine over a tree-shaped file system.  *)
(*                                                                         *)
(* Strings are sequences of one-character strings, paths are sequences of  *)
(* names relative to project_root (<<>> is project_root itself).  One      *)
(* create_structure run is a walk of pc from "start" to "done" or          *)
(* "failed"; the run stops at every input() call and the action that       *)
(* resumes it draws the operator's response.                               *)
(***************************************************************************)
EXTENDS Integers, Sequences, FiniteSets, TLC

\* ------------------------------------------------------------ bounds
\* Number of documentation-like directories directly under project_root.
MaxCand == 2
\* Number of numbered variants (010_guides, 020_guides, ...) in the target.
MaxVariants == 2
\* Number of keys of a valid configuration file that are changed before loading.
MaxChanged == 2
\* Length of the filenames FilenameFormatter is called with on its own.
MaxLen == 3

\* ------------------------------------------------------------ characters
Digits == <<"0", "1", "2", "3", "4", "5", "6", "7", "8", "9">>
UpperCase == <<"A", "B", "C", "D", "E", "F", "G", "H", "I", "J", "K", "L", "M",
               "N", "O", "P", "Q", "R", "S", "T", "U", "V", "W", "X", "Y", "Z">>
LowerCase == <<"a", "b", "c", "d", "e", "f", "g", "h", "i", "j", "k", "l", "m",
               "n", "o", "p", "q", "r", "s", "t", "u", "v", "w", "x", "y", "z">>
\* The characters in code-point order (Python compares str by code point).
Alphabet == <<"\n", " ", "!", "#", "+", "-", ".">> \o Digits \o UpperCase \o <<"_">> \o LowerCase

Range(s) == {s[i] : i \in DOMAIN s}
Chars == Range(Alphabet)
DigitChars == Range(Digits)
\* [a-z0-9\-], the characters sanitize keeps
SafeChars == Range(LowerCase) \cup Range(Digits) \cup {"-"}
IndexIn(s, c) == CHOOSE i \in DOMAIN s : s[i] = c
\* ord(c), up to the order
CodeOf == [c \in Chars |-> IndexIn(Alphabet, c)]
\* c.lower() and c.upper()
LowerOf == [c \in Chars |-> IF c \in Range(UpperCase) THEN LowerCase[IndexIn(UpperCase, c)] ELSE c]
UpperOf == [c \in Chars |-> IF c \in Range(LowerCase) THEN UpperCase[IndexIn(LowerCase, c)] ELSE c]
DigitValOf == [c \in DigitChars |-> IndexIn(Digits, c) - 1]

IsDigit(c) == c \in DigitChars
DigitVal(c) == DigitValOf[c]
Code(c) == CodeOf[c]
IsSpace(c) == c \in {" ", "\n"}
LowerChar(c) == LowerOf[c]

\* str.lower()
Lower(s) == [i \in DOMAIN s |-> LowerChar(s[i])]

\* str.strip(): drops leading and trailing whitespace.
RECURSIVE LStrip(_)
LStrip(s) == IF s # <<>> /\ IsSpace(Head(s)) THEN LStrip(Tail(s)) ELSE s
RECURSIVE RStrip(_)
RStrip(s) ==
    IF s # <<>> /\ IsSpace(s[Len(s)]) THEN RStrip(SubSeq(s, 1, Len(s) - 1)) ELSE s
Strip(s) == RStrip(LStrip(s))

\* Python's str < str : lexicographic by code point.
RECURSIVE StrLess(_, _)
StrLess(a, b) ==
    IF b = <<>> THEN FALSE
    ELSE IF a = <<>> THEN TRUE
    ELSE IF Head(a) = Head(b) THEN StrLess(Tail(a), Tail(b))
    ELSE Code(Head(a)) < Code(Head(b))

EndsWith(s, suffix) ==
    /\ Len(s) >= Len(suffix)
    /\ SubSeq(s, Len(s) - Len(suffix) + 1, Len(s)) = suffix

\* int(str): optional surrounding whitespace, optional sign, decimal digits.
\* ValueError is modelled by IsInt being FALSE.
IntBody(s) == LET t == Strip(s) IN
    IF t # <<>> /\ Head(t) \in {"+", "-"} THEN Tail(t) ELSE t
IsInt(s) == IntBody(s) # <<>> /\ \A i \in DOMAIN IntBody(s) : IsDigit(IntBody(s)[i])
RECURSIVE DigitsVal(_)
DigitsVal(ds) ==
    IF ds = <<>> THEN 0
    ELSE 10 * DigitsVal(SubSeq(ds, 1, Len(ds) - 1)) + DigitVal(ds[Len(ds)])
ParseInt(s) ==
    IF Head(Strip(s)) = "-" THEN 0 - DigitsVal(IntBody(s)) ELSE DigitsVal(IntBody(s))

\* str(n) for n >= 0, and f"{n:0{width}d}".
RECURSIVE DecimalOf(_)
DecimalOf(n) ==
    IF n < 10 THEN <<Digits[n + 1]>> ELSE DecimalOf(n \div 10) \o <<Digits[(n % 10) + 1]>>
RECURSIVE ZeroPad(_, _)
ZeroPad(s, width) == IF Len(s) >= width THEN s ELSE ZeroPad(<<"0">> \o s, width)

\* ------------------------------------------------------------ paths
Parent(p) == SubSeq(p, 1, Len(p) - 1)
Name(p) == p[Len(p)]
\* p lies strictly below d.
IsUnder(p, d) == Len(p) > Len(d) /\ SubSeq(p, 1, Len(d)) = d
Ancestors(p) == {SubSeq(p, 1, k) : k \in 0..(Len(p) - 1)}

\* pathlib orders paths by their tuple of parts.
RECURSIVE PathLess(_, _)
PathLess(p, q) ==
    IF q = <<>> THEN FALSE
    ELSE IF p = <<>> THEN TRUE
    ELSE IF Head(p) = Head(q) THEN PathLess(Tail(p), Tail(q))
    ELSE StrLess(Head(p), Head(q))

\* sorted(S) for a set of paths.
RECURSIVE SortedPaths(_)
SortedPaths(S) ==
    IF S = {} THEN <<>>
    ELSE LET m == CHOOSE x \in S : \A y \in S \ {x} : PathLess(x, y)
         IN <<m>> \o SortedPaths(S \ {m})

\* ------------------------------------------------------------ file system
\* A file system is [dirs |-> set of paths, files |-> [paths -> content],
\* denied |-> the entries the process has no permission on: files it can neither
\* read nor write, empty directories it can neither list nor write into,
\* readonly |-> the directories it can list but not write into: no entry of such
\* a directory can be created or removed].
NoWrite(f, d) == d \in f.denied \cup f.readonly
AllPaths(f) == f.dirs \cup DOMAIN f.files
Exists(f, p) == p \in AllPaths(f)
IsDir(f, p) == p \in f.dirs
IsFile(f, p) == p \in DOMAIN f.files
\* Path.iterdir() and Path.rglob('*')
Iterdir(f, d) == {p \in AllPaths(f) : Parent(p) = d /\ Len(p) = Len(d) + 1}
Rglob(f, d) == IF IsDir(f, d) THEN {p \in AllPaths(f) : IsUnder(p, d)} ELSE {}

\* The outcome of an operation: the file system it leaves and, when it raised,
\* the exception: its type first, then the types of the exceptions it was raised
\* from while they were being handled.
Ok(f) == [ok |-> TRUE, fs |-> f, exc |-> <<>>]
Raise(f, type) == [ok |-> FALSE, fs |-> f, exc |-> <<type>>]
Fail(f) == Raise(f, "OSError")
\* A variant of Wrapped that lets the exception through as it is.
Unwrapped(type, r) == r
\* try: ... except Exception as e: raise type(f"...: {e}")
Wrapped(type, r) == IF r.ok THEN r ELSE [r EXCEPT !.exc = <<type>> \o @]

\* Path.mkdir(parents=True, exist_ok=True)
MkdirParents(f, p) ==
    IF \E a \in Ancestors(p) \cup {p} : IsFile(f, a) THEN Raise(f, "FileExistsError")
    ELSE IF \E a \in Ancestors(p) \cup {p} : ~IsDir(f, a) /\ NoWrite(f, Parent(a))
         THEN Raise(f, "PermissionError")
    ELSE Ok([f EXCEPT !.dirs = @ \cup Ancestors(p) \cup {p}])

\* Path.mkdir(exist_ok=True)
MkdirExistOk(f, p) ==
    IF IsDir(f, p) THEN Ok(f)
    ELSE IF IsFile(f, p) THEN Raise(f, "FileExistsError")
    ELSE IF ~IsDir(f, Parent(p)) THEN Raise(f, "FileNotFoundError")
    ELSE IF NoWrite(f, Parent(p)) THEN Raise(f, "PermissionError")
    ELSE Ok([f EXCEPT !.dirs = @ \cup {p}])

\* Path.write_text(content) / Path.write_bytes(content)
WriteFile(f, p, content) ==
    IF IsDir(f, p) THEN Raise(f, "IsADirectoryError")
    ELSE IF ~IsDir(f, Parent(p)) THEN Raise(f, "FileNotFoundError")
    ELSE IF p \in f.denied \/ (~IsFile(f, p) /\ NoWrite(f, Parent(p)))
         THEN Raise(f, "PermissionError")
    ELSE Ok([f EXCEPT !.files = (p :> content) @@ @])

\* Path.read_bytes()
CanRead(f, p) == IsFile(f, p) /\ p \notin f.denied

\* Path.rmdir() on an empty directory whose parent can be written
Rmdir(f, p) == [f EXCEPT !.dirs = @ \ {p}]

\* shutil.rmtree(p): the entries under p go first, p itself last; p stays, emptied,
\* when its parent cannot be written.
Rmtree(f, p) ==
    IF ~IsDir(f, p) THEN Raise(f, "NotADirectoryError")
    ELSE IF p \in f.denied THEN Raise(f, "PermissionError")
    ELSE LET emptied == [f EXCEPT !.dirs = {d \in @ : ~IsUnder(d, p)},
                                  !.files = [q \in {x \in DOMAIN @ : ~IsUnder(x, p)} |-> @[q]]]
         IN IF NoWrite(f, Parent(p)) THEN Raise(emptied, "PermissionError")
            ELSE Ok(Rmdir(emptied, p))

\* Path.unlink(): the entry goes when its parent can be written, whatever the
\* permissions of the file itself.
Unlink(f, p) ==
    IF IsDir(f, p) THEN Raise(f, "IsADirectoryError")
    ELSE IF ~IsFile(f, p) THEN Raise(f, "FileNotFoundError")
    ELSE IF NoWrite(f, Parent(p)) THEN Raise(f, "PermissionError")
    ELSE Ok([f EXCEPT !.files = [q \in DOMAIN @ \ {p} |-> @[q]]])

\* ------------------------------------------------------------ FilenameFormatter
LastDot(s) == IF \E i \in DOMAIN s : s[i] = "."
              THEN CHOOSE i \in DOMAIN s : s[i] = "." /\ \A j \in (i + 1)..Len(s) : s[j] # "."
              ELSE 0
\* filename.rsplit(".", 1)[0]
Stem(s) == IF LastDot(s) = 0 THEN s ELSE SubSeq(s, 1, LastDot(s) - 1)
\* "." + filename.rsplit(".", 1)[1], or "" without a dot
Ext(s) == IF LastDot(s) = 0 THEN <<>> ELSE SubSeq(s, LastDot(s), Len(s))

RECURSIVE KeepSafe(_)
KeepSafe(s) ==
    IF s = <<>> THEN <<>>
    ELSE IF Head(s) \in SafeChars
         THEN <<Head(s)>> \o KeepSafe(Tail(s))
         ELSE KeepSafe(Tail(s))
RECURSIVE CollapseDashes(_)
CollapseDashes(s) ==
    IF Len(s) < 2 THEN s
    ELSE IF s[1] = "-" /\ s[2] = "-" THEN CollapseDashes(Tail(s))
    ELSE <<s[1]>> \o CollapseDashes(Tail(s))
RECURSIVE StripDashes(_)
StripDashes(s) ==
    IF s # <<>> /\ Head(s) = "-" THEN StripDashes(Tail(s))
    ELSE IF s # <<>> /\ s[Len(s)] = "-" THEN StripDashes(SubSeq(s, 1, Len(s) - 1))
    ELSE s
SpacesToDashes(s) == [i \in DOMAIN s |-> IF s[i] = " " THEN "-" ELSE s[i]]

\* A variant of sanitize that strips the dashes at both ends before it removes the
\* special characters.
sanitize_strips_first(filename) ==
    CollapseDashes(KeepSafe(StripDashes(SpacesToDashes(Lower(Stem(filename)))))) \o Ext(filename)
\* FilenameFormatter.sanitize (non-empty filename)
sanitize(filename) ==
    StripDashes(CollapseDashes(KeepSafe(SpacesToDashes(Lower(Stem(filename)))))) \o Ext(filename)

\* re.match(r'^\d+_', name)
RECURSIVE DigitRun(_)
DigitRun(s) == IF s # <<>> /\ IsDigit(Head(s)) THEN 1 + DigitRun(Tail(s)) ELSE 0
HasNumber(name) == DigitRun(name) >= 1 /\ Len(name) > DigitRun(name) /\ name[DigitRun(name) + 1] = "_"
\* FilenameFormatter.get_base_name: re.sub(r"^\d+_", "", filepath.name)
get_base_name(filepath) ==
    IF HasNumber(Name(filepath))
    THEN SubSeq(Name(filepath), DigitRun(Name(filepath)) + 2, Len(Name(filepath)))
    ELSE Name(filepath)

UpperChar(c) == UpperOf[c]
\* str.capitalize()
Capitalize(w) == [i \in DOMAIN w |-> IF i = 1 THEN UpperChar(w[i]) ELSE LowerChar(w[i])]
\* " ".join(word.capitalize() for word in title.split())
RECURSIVE TitleWords(_, _)
TitleWords(s, word) ==
    IF s = <<>> THEN (IF word = <<>> THEN <<>> ELSE <<Capitalize(word)>>)
    ELSE IF IsSpace(Head(s))
         THEN (IF word = <<>> THEN <<>> ELSE <<Capitalize(word)>>) \o TitleWords(Tail(s), <<>>)
         ELSE TitleWords(Tail(s), word \o <<Head(s)>>)
RECURSIVE JoinSpace(_)
JoinSpace(ws) ==
    IF ws = <<>> THEN <<>>
    ELSE IF Len(ws) = 1 THEN ws[1]
    ELSE ws[1] \o <<" ">> \o JoinSpace(Tail(ws))
DashesToSpaces(s) == [i \in DOMAIN s |-> IF s[i] = "-" THEN " " ELSE s[i]]
\* FilenameFormatter.to_title (non-empty filename)
to_title(filename) == JoinSpace(TitleWords(DashesToSpaces(Stem(filename)), <<>>))

\* ------------------------------------------------------------ names
docs == <<"d", "o", "c", "s">>
dot == <<".">>
policies == <<"p", "o", "l", "i", "c", "i", "e", "s">>
procedures == <<"p", "r", "o", "c", "e", "d", "u", "r", "e", "s">>
records == <<"r", "e", "c", "o", "r", "d", "s">>
guides == <<"g", "u", "i", "d", "e", "s">>
md == <<".", "m", "d">>
README == <<"R", "E", "A", "D", "M", "E">> \o md
git == <<".", "g", "i", "t">>

\* ------------------------------------------------------------ configuration
\* StructureConfig as load_config returns it (validated).
Config(enabled) ==
    [docs_dir |-> docs,
     numbering |-> [enabled |-> enabled, initial_prefix |-> 10, dir_start_prefix |-> 20,
                    prefix_step |-> 10, padding_width |-> 3],
     directories |-> <<[name |-> guides, files |-> <<<<"G", "e", "t", " ", "S", "t", "a", "r", "t", "e", "d">> \o md>>]>>,
     top_level_files |-> << <<"i", "n", "d", "e", "x">> \o md >>,
     use_markdown_headings |-> TRUE]

project_root == <<>>
\* docs_dir = project_root / self.config.docs_dir  ("." is dropped by pathlib)
DocsDir(cfg) == IF cfg.docs_dir = dot THEN project_root ELSE project_root \o <<cfg.docs_dir>>

\* ------------------------------------------------------------ DirectoryMigrator
IsmsBases == {policies, procedures, records}
\* fnmatch of a name against '[0-9][0-9][0-9]_<base>' or '<base>'
PatternDirName(n) ==
    \E b \in IsmsBases :
        \/ n = b
        \/ /\ Len(n) = Len(b) + 4
           /\ \A i \in 1..3 : IsDigit(n[i])
           /\ n[4] = "_"
           /\ SubSeq(n, 5, Len(n)) = b
\* A variant of GlobHit for which any *.md entry below the directory counts.
GlobHitAnyMarkdown(f, dir_path) ==
    \E y \in AllPaths(f) : IsUnder(y, dir_path) /\ EndsWith(Name(y), md)
\* any(dir_path.glob('**/<dir pattern>/*.md')) for one of the six patterns
GlobHit(f, dir_path) ==
    \E y \in AllPaths(f) :
        /\ IsUnder(y, dir_path)
        /\ Len(y) >= Len(dir_path) + 2
        /\ EndsWith(Name(y), md)
        /\ PatternDirName(Name(Parent(y)))

\* A variant of find_isms_directories without "or dir_path == new_dir".
find_isms_directories_with_new_dir(f, root, new_dir) ==
    SortedPaths({d \in Iterdir(f, root) \cup Iterdir(f, root \o <<docs>>) :
                    IsDir(f, d) /\ GlobHit(f, d)})

\* "if not base_path.exists(): continue" then "for dir_path in base_path.iterdir()":
\* listing raises when project_root/docs exists and is not a directory.
find_raises(f, root) == Exists(f, root \o <<docs>>) /\ ~IsDir(f, root \o <<docs>>)

find_isms_directories(f, root, new_dir) ==
    SortedPaths({d \in Iterdir(f, root) \cup Iterdir(f, root \o <<docs>>) :
                    IsDir(f, d) /\ d # new_dir /\ GlobHit(f, d)})

\* A variant of HasContent that counts directories as content.
HasContentAnyEntry(f, new_dir) == Rglob(f, new_dir) # {}
\* the has_content loop of handle_directory_change
\* A variant of HasContent that looks at the entries of new_dir itself only.
HasContentDirect(f, new_dir) == \E p \in Iterdir(f, new_dir) : IsFile(f, p)
HasContent(f, new_dir) == \E p \in Rglob(f, new_dir) : IsFile(f, p)

Reverse(s) == [i \in DOMAIN s |-> s[Len(s) + 1 - i]]
\* "if path.is_dir() and not any(path.iterdir()): path.rmdir()" over the sorted
\* paths; iterdir raises on a directory that cannot be listed.
RECURSIVE PruneSeq(_, _)
PruneSeq(f, paths) ==
    IF paths = <<>> THEN Ok(f)
    ELSE IF IsDir(f, Head(paths)) /\ Head(paths) \in f.denied THEN Raise(f, "PermissionError")
    ELSE IF IsDir(f, Head(paths)) /\ Iterdir(f, Head(paths)) = {} /\ NoWrite(f, Parent(Head(paths)))
         THEN Raise(f, "PermissionError")
    ELSE PruneSeq(IF IsDir(f, Head(paths)) /\ Iterdir(f, Head(paths)) = {}
                  THEN Rmdir(f, Head(paths)) ELSE f,
                  Tail(paths))
\* A variant of cleanup_empty_dirs that visits the paths in ascending order.
cleanup_empty_dirs_ascending(f, directory) ==
    IF ~Exists(f, directory) THEN Ok(f)
    ELSE PruneSeq(f, SortedPaths(Rglob(f, directory)))
\* DirectoryMigrator._cleanup_empty_dirs
cleanup_empty_dirs(f, directory) ==
    IF ~Exists(f, directory) THEN Ok(f)
    ELSE PruneSeq(f, Reverse(SortedPaths(Rglob(f, directory))))

\* ------------------------------------------------------------ FileHandler
Handlers == {"interactive", "silent", "dryrun"}

\* A variant of WritingCreate that leaves a file that is already there alone.
WritingCreateIfMissing(f, path, content) ==
    LET r == MkdirParents(f, Parent(path))
    IN Wrapped("FileSystemError",
               IF r.ok /\ ~Exists(r.fs, path) THEN WriteFile(r.fs, path, content) ELSE r)
\* InteractiveFileHandler.create / SilentFileHandler.create
WritingCreate(f, path, content) ==
    LET r == MkdirParents(f, Parent(path))
    IN Wrapped("FileSystemError", IF r.ok THEN WriteFile(r.fs, path, content) ELSE r)
\* A dry run that writes the file all the same.
DryRunCreateWrites(f, path, content) == WritingCreate(f, path, content)
\* DryRunFileHandler.create
DryRunCreate(f, path, content) == Ok(f)
\* file_handler.create(path, content); ok = FALSE is FileSystemError
HandlerCreate(h, f, path, content) ==
    IF h = "dryrun" THEN DryRunCreate(f, path, content) ELSE WritingCreate(f, path, content)

\* SilentFileHandler.remove_dir
SilentRemoveDir(f, path) ==
    Wrapped("FileSystemError", IF Exists(f, path) THEN Rmtree(f, path) ELSE Ok(f))
\* DryRunFileHandler.remove_dir
DryRunRemoveDir(f, path) == Ok(f)
\* InteractiveFileHandler.remove_dir asks _confirm_removal exactly when the path exists
InteractiveAsks(f, path) == Exists(f, path)
\* A variant of InteractiveRemoveDir that removes the tree whatever the answer.
InteractiveRemoveDirAlways(f, path, confirmed) == Rmtree(f, path)
\* InteractiveFileHandler.remove_dir once _confirm_removal returned `confirmed`
InteractiveRemoveDir(f, path, confirmed) ==
    Wrapped("FileSystemError", IF confirmed THEN Rmtree(f, path) ELSE Ok(f))

\* SilentFileHandler.remove
SilentRemove(f, path) ==
    Wrapped("FileSystemError", IF Exists(f, path) THEN Unlink(f, path) ELSE Ok(f))
\* DryRunFileHandler.remove
DryRunRemove(f, path) == Ok(f)
\* A variant of InteractiveRemove that unlinks the file whatever the answer.
InteractiveRemoveAlways(f, path, confirmed) == Wrapped("FileSystemError", Unlink(f, path))
\* InteractiveFileHandler.remove once _confirm_removal returned `confirmed`
InteractiveRemove(f, path, confirmed) ==
    Wrapped("FileSystemError", IF confirmed THEN Unlink(f, path) ELSE Ok(f))

\* A logger call of handler.py: level, the text before the path, the path.
Line(level, text, path) == [level |-> level, text |-> text, path |-> path]
\* A variant of DryRunLog that logs a removal whether or not the path exists.
DryRunLogAlways(op, f, path, content) ==
    IF op = "create" THEN {Line("INFO", "Would create file", path)}
    ELSE {Line("INFO", "Would remove", path)}
\* The lines a DryRunFileHandler call logs, as a set.
DryRunLog(op, f, path, content) ==
    IF op = "create"
    THEN {Line("INFO", "Would create file", path)}
            \cup (IF content # <<>> THEN {Line("DEBUG", "With content", content)} ELSE {})
    ELSE IF ~Exists(f, path) THEN {}
    ELSE IF op = "remove" THEN {Line("INFO", "Would remove file", path)}
    ELSE {Line("INFO", "Would remove directory", path)}
            \cup {Line("DEBUG", "Would remove", item) : item \in Rglob(f, path)}
\* The lines a call of a writing handler logs, as a set: at INFO for the
\* interactive handler, at DEBUG for the silent one. `existed` says whether the
\* path existed at the call, `interrupted` whether input() raised in
\* _confirm_removal, `confirmed` what _confirm_removal returned, res is the
\* outcome of the call.
WritingLog(h, op, path, existed, interrupted, confirmed, res) ==
    LET level == IF h = "interactive" THEN "INFO" ELSE "DEBUG"
        gone == IF op = "remove" THEN "Removed file" ELSE "Removed directory"
        kept == IF op = "remove" THEN "Skipped removal of" ELSE "Skipped removal of directory"
    IN (IF interrupted THEN {Line("WARNING", "Operation cancelled by user.", <<>>)} ELSE {})
        \cup (IF ~res.ok THEN {}
              ELSE IF op = "create" THEN {Line(level, "Created file", path)}
              ELSE IF ~existed THEN {}
              ELSE IF h = "silent" \/ confirmed THEN {Line(level, gone, path)}
              ELSE {Line(level, kept, path)})
\* The message of the FileSystemError a writing handler raises: the text before
\* the path, the path, and the exception it was raised from.
HandlerMessage(op, path, res) ==
    [text |-> IF op = "create" THEN "Error creating file"
              ELSE IF op = "remove" THEN "Error removing file"
              ELSE "Error removing directory",
     path |-> path,
     cause |-> Tail(res.exc)]

\* ------------------------------------------------------------ operator input
Txt(s) == [exc |-> "none", text |-> s]
KeyboardInterrupt == [exc |-> "KeyboardInterrupt", text |-> <<>>]
EOFError == [exc |-> "EOFError", text |-> <<>>]
NoInput == [exc |-> "unread", text |-> <<>>]
Raises(r) == r.exc \in {"KeyboardInterrupt", "EOFError"}

\* What input() may return at a yes/no question.
YesNoInputs ==
    {Txt(<<"y">>), Txt(<<" ", "Y", " ">>), Txt(<<"n">>), Txt(<<>>), Txt(<<"y", "e", "s">>),
     KeyboardInterrupt, EOFError}
\* What input() may return at an enumerated chooser.
MaxChoice == IF MaxCand > MaxVariants + 1 THEN MaxCand ELSE MaxVariants + 1
SelectInputs ==
    {Txt(DecimalOf(k)) : k \in 0..(MaxChoice + 1)}
        \cup {Txt(<<"n">>), Txt(<<" ", "N">>), Txt(<<" ", "2", " ">>), Txt(<<"+", "1">>),
              Txt(<<"-", "1">>), Txt(<<"x">>), Txt(<<>>), KeyboardInterrupt, EOFError}

\* A variant of Confirmed in which an interrupted question counts as a yes.
ConfirmedWhenInterrupted(r) == Raises(r) \/ Strip(Lower(r.text)) = <<"y">>
\* A variant of Confirmed in which an empty answer also confirms.
ConfirmedByDefault(r) == ~Raises(r) /\ Strip(Lower(r.text)) \in {<<"y">>, <<>>}
\* A variant of Confirmed in which only an explicit 'n' declines.
ConfirmedUnlessNo(r) == ~Raises(r) /\ Strip(Lower(r.text)) # <<"n">>
\* input(...).lower().strip() == 'y', with KeyboardInterrupt and EOFError caught as False
\* (handler._confirm_removal, migrator._confirm_migration, migrator._confirm_removal)
Confirmed(r) == ~Raises(r) /\ Strip(Lower(r.text)) = <<"y">>

\* A variant of Choice that reads the number entered as a 0-based index.
ChoiceZeroBased(r, n) ==
    IF Raises(r) THEN [kind |-> "skip", idx |-> 0]
    ELSE IF Lower(Strip(r.text)) = <<"n">> THEN [kind |-> "skip", idx |-> 0]
    ELSE IF ~IsInt(Strip(r.text)) THEN [kind |-> "invalid", idx |-> 0]
    ELSE IF 0 <= ParseInt(Strip(r.text)) /\ ParseInt(Strip(r.text)) < n
         THEN [kind |-> "index", idx |-> ParseInt(Strip(r.text))]
         ELSE [kind |-> "invalid", idx |-> 0]
\* A variant of Choice that takes an index past the end as the last entry.
ChoiceClamped(r, n) ==
    IF Raises(r) THEN [kind |-> "skip", idx |-> 0]
    ELSE IF Lower(Strip(r.text)) = <<"n">> THEN [kind |-> "skip", idx |-> 0]
    ELSE IF ~IsInt(Strip(r.text)) THEN [kind |-> "invalid", idx |-> 0]
    ELSE IF 0 <= ParseInt(Strip(r.text)) - 1
         THEN [kind |-> "index",
               idx |-> IF ParseInt(Strip(r.text)) - 1 < n THEN ParseInt(Strip(r.text)) - 1
                       ELSE n - 1]
         ELSE [kind |-> "invalid", idx |-> 0]

\* The chooser's reading of its input: "skip" ('n', interrupt, end of input),
\* "invalid" (ValueError or out of range) or the 0-based index chosen.
Choice(r, n) ==
    IF Raises(r) THEN [kind |-> "skip", idx |-> 0]
    ELSE IF Lower(Strip(r.text)) = <<"n">> THEN [kind |-> "skip", idx |-> 0]
    ELSE IF ~IsInt(Strip(r.text)) THEN [kind |-> "invalid", idx |-> 0]
    ELSE IF 0 <= ParseInt(Strip(r.text)) - 1 /\ ParseInt(Strip(r.text)) - 1 < n
         THEN [kind |-> "index", idx |-> ParseInt(Strip(r.text)) - 1]
         ELSE [kind |-> "invalid", idx |-> 0]

\* ------------------------------------------------------------ state
VARIABLES
    fs,             \* the file system below project_root
    fs0,            \* the file system when create_structure was called
    config,         \* the StructureConfig of the manager
    handler,        \* which FileHandler class the cli injected
    pc,             \* where the create_structure call stands
    existing_dirs,  \* handle_directory_change: the sorted candidates
    old_dir,        \* handle_directory_change: the migration source, <<>> if none
    remaining,      \* _migrate_directory: source files the copy loop has not visited
    pending,        \* _cleanup_mismatched_content: groups not handled yet
    dirs,           \* _cleanup_mismatched_content: the sorted group being handled
    todo,           \* remove_dir calls the current loop still has to make
    by,             \* who makes them: "migrate", "multi" or "single"
    calls,          \* every call of a file_handler method, in order
    asked,          \* every input() call answered, in order
    resp,           \* what input() returned or raised in the step just taken
    error,          \* the step in which create_structure failed (load_config: the
                    \* message of its DocumentationError), "" if none
    raised,         \* the exception that left create_structure, <<>> if none
    data,           \* load_config: the mapping yaml.safe_load returned, <<>> if none
    args,           \* the create command: its parsed arguments, <<>> if none
    exit_code,      \* the create command: what it returned, -1 until it returns
    given,          \* FilenameFormatter called on its own: the argument
    formatted,      \* FilenameFormatter called on its own: what it returned
    run             \* how many create_structure calls the manager has been given

vars == <<fs, fs0, config, handler, pc, existing_dirs, old_dir, remaining, pending,
          dirs, todo, by, calls, asked, resp, error, raised, data, args,
          exit_code, given, formatted, run>>

\* ------------------------------------------------------------ initial file systems
old == <<"o", "l", "d">>
isms == <<"i", "s", "m", "s">>
legacy == <<"l", "e", "g", "a", "c", "y">>
txt == <<".", "t", "x", "t">>
\* The documentation-like directories a project may hold under its root:
\* old/policies/p.md + old/notes.txt, isms/010_procedures/q.md, legacy/records/r.md
CandidateFiles ==
    << {<< <<old, policies, <<"p">> \o md>>, <<"P">> >>,
        << <<old, <<"n", "o", "t", "e", "s">> \o txt>>, <<"N">> >>},
       {<< <<isms, <<"0", "1", "0", "_">> \o procedures, <<"q">> \o md>>, <<"Q">> >>},
       {<< <<legacy, records, <<"r">> \o md>>, <<"R">> >>} >>

\* Numbered variant k of the configured directory: 010_guides, 020_guides, ...
VariantName(k) == ZeroPad(DecimalOf(k * 10), 3) \o <<"_">> \o guides
getStarted == <<"g", "e", "t", "-", "s", "t", "a", "r", "t", "e", "d">> \o md
indexMd == <<"i", "n", "d", "e", "x">> \o md

\* What the target directory docs/ may already hold: README.md, index.md, and
\* guides/ (1: empty, 2: with get-started.md, 3: with an empty img/ in it).
img == <<"i", "m", "g">>
TargetFiles(nTop, guidesState) ==
    (IF nTop >= 1 THEN {<< <<docs, README>>, <<"R", "0">> >>} ELSE {})
        \cup (IF nTop >= 2 THEN {<< <<docs, indexMd>>, <<"I", "0">> >>} ELSE {})
        \cup (IF guidesState = 2 THEN {<< <<docs, guides, getStarted>>, <<"G", "0">> >>} ELSE {})
TargetDirs(present, guidesState, variants) ==
    (IF present THEN {<<docs>>} ELSE {})
        \cup (IF guidesState >= 1 THEN {<<docs, guides>>} ELSE {})
        \cup (IF guidesState = 3 THEN {<<docs, guides, img>>} ELSE {})
        \cup {<<docs, VariantName(k)>> : k \in variants}

MkFs(dirSet, filePairs) ==
    [dirs |-> {project_root} \cup dirSet
                \cup UNION {Ancestors(d) : d \in dirSet}
                \cup UNION {Ancestors(p[1]) : p \in filePairs},
     files |-> [q \in {p[1] : p \in filePairs} |->
                    (CHOOSE p \in filePairs : p[1] = q)[2]],
     denied |-> {}, readonly |-> {}]

InitialFileSystems ==
    {MkFs(TargetDirs(present, g, v),
          TargetFiles(t, g) \cup UNION {CandidateFiles[c] : c \in cs}) :
        cs \in SUBSET (1..MaxCand), present \in BOOLEAN, t \in 0..2, g \in 0..3,
        v \in SUBSET (1..MaxVariants)}

\* Projects in which a step of the run can hit an OSError: docs is a
\* regular file, the project root cannot be written, or the process has no
\* permission on a source file (old/notes.txt), on an existing target file
\* (docs/index.md) or on an empty docs/guides. They are built on the projects
\* with at most the first numbered variant of the configured directory.
notesTxt == <<old, <<"n", "o", "t", "e", "s">> \o txt>>
DocsAsFile(cs) ==
    MkFs({}, {<< <<docs>>, <<"D">> >>} \cup UNION {CandidateFiles[c] : c \in cs})
Deniable(f) ==
    {p \in {notesTxt, <<docs, indexMd>>} : IsFile(f, p)}
        \cup {d \in {<<docs, guides>>} : IsDir(f, d) /\ Iterdir(f, d) = {}}
FaultBase ==
    {MkFs(TargetDirs(present, g, v),
          TargetFiles(t, g) \cup UNION {CandidateFiles[c] : c \in cs}) :
        cs \in SUBSET (1..MaxCand), present \in BOOLEAN, t \in 0..2, g \in 0..3,
        v \in SUBSET {1}}
FaultySystems ==
    UNION {{[f EXCEPT !.denied = {p}] : p \in Deniable(f)} : f \in FaultBase}
        \cup {[f EXCEPT !.readonly = {project_root}] : f \in FaultBase}
        \cup {DocsAsFile(cs) : cs \in SUBSET (1..MaxCand)}
        \cup FaultBase

InitWith(systems) ==
    /\ fs \in systems
    /\ fs0 = fs
    /\ config \in {Config(e) : e \in BOOLEAN}
    /\ handler \in Handlers
    /\ pc = "start"
    /\ existing_dirs = <<>>
    /\ old_dir = <<>>
    /\ remaining = {}
    /\ pending = {}
    /\ dirs = <<>>
    /\ todo = <<>>
    /\ by = ""
    /\ calls = <<>>
    /\ asked = <<>>
    /\ resp = NoInput
    /\ error = ""
    /\ raised = <<>>
    /\ data = <<>>
    /\ args = <<>>
    /\ exit_code = -1
    /\ given = <<>>
    /\ formatted = <<>>
    /\ run = 1

Init == InitWith(InitialFileSystems)

\* Projects for find_isms_directories on its own. Each holds any of:
\*   doc/ (1: empty, 2: with policies/p.md), docs-old/010_records/r.md,
\*   docs (1: a regular file, 2: an empty directory, 3: with isms/procedures/q.md),
\*   documentation (a regular file), notes/policies/readme.txt,
\*   policies/p.md, wiki/records/a.md/ (a directory named like a markdown file).
doc == <<"d", "o", "c">>
docsOld == <<"d", "o", "c", "s", "-", "o", "l", "d">>
documentation == <<"d", "o", "c", "u", "m", "e", "n", "t", "a", "t", "i", "o", "n">>
notes == <<"n", "o", "t", "e", "s">>
wiki == <<"w", "i", "k", "i">>
pMd == <<"p">> \o md
FindDirs(docState, docsState, withWiki) ==
    (IF docState >= 1 THEN {<<doc>>} ELSE {})
        \cup (IF docsState >= 2 THEN {<<docs>>} ELSE {})
        \cup (IF withWiki THEN {<<wiki, records, <<"a">> \o md>>} ELSE {})
FindFiles(docState, withOld, docsState, withDocumentation, withNotes, withPolicies) ==
    (IF docState = 2 THEN {<< <<doc, policies, pMd>>, <<"P">> >>} ELSE {})
        \cup (IF withOld
              THEN {<< <<docsOld, <<"0", "1", "0", "_">> \o records, <<"r">> \o md>>, <<"R">> >>}
              ELSE {})
        \cup (IF docsState = 1 THEN {<< <<docs>>, <<"D">> >>} ELSE {})
        \cup (IF docsState = 3 THEN {<< <<docs, isms, procedures, <<"q">> \o md>>, <<"Q">> >>}
              ELSE {})
        \cup (IF withDocumentation THEN {<< <<documentation>>, <<"D">> >>} ELSE {})
        \cup (IF withNotes THEN {<< <<notes, policies, <<"r", "e", "a", "d", "m", "e">> \o txt>>, <<"N">> >>}
              ELSE {})
        \cup (IF withPolicies THEN {<< <<policies, pMd>>, <<"P">> >>} ELSE {})
FindSystems ==
    {MkFs(FindDirs(a, c, w), FindFiles(a, o, c, d, n, p)) :
        a \in 0..2, c \in 0..3, o \in BOOLEAN, d \in BOOLEAN, n \in BOOLEAN,
        p \in BOOLEAN, w \in BOOLEAN}
\* find_isms_directories called on its own, for a configured docs_dir of docs,
\* doc or docs-old.
FindInit ==
    /\ fs \in FindSystems
    /\ fs0 = fs
    /\ config \in {[Config(TRUE) EXCEPT !.docs_dir = n] : n \in {docs, doc, docsOld}}
    /\ handler = "silent"
    /\ pc = "start"
    /\ existing_dirs = <<>>
    /\ old_dir = <<>>
    /\ remaining = {}
    /\ pending = {}
    /\ dirs = <<>>
    /\ todo = <<>>
    /\ by = ""
    /\ calls = <<>>
    /\ asked = <<>>
    /\ resp = NoInput
    /\ error = ""
    /\ raised = <<>>
    /\ data = <<>>
    /\ args = <<>>
    /\ exit_code = -1
    /\ given = <<>>
    /\ formatted = <<>>
    /\ run = 1
\* The same program started in any of these projects or in one where a step fails.
FaultInit == InitWith(FaultySystems)

\* Projects for a file_handler method called on its own: docs/ with or without
\* README.md, index.md and guides/ (empty, with get-started.md, with an empty
\* img/), fault-free or with one fault: no permission on index.md or on an empty
\* guides/, or a project root or a docs/ that cannot be written.
HandlerBase == {MkFs(TargetDirs(TRUE, g, {}), TargetFiles(t, g)) : t \in 0..2, g \in 0..3}
HandlerSystems ==
    HandlerBase
        \cup UNION {{[f EXCEPT !.denied = {p}] : p \in Deniable(f)} : f \in HandlerBase}
        \cup {[f EXCEPT !.readonly = {d}] : f \in HandlerBase, d \in {project_root, <<docs>>}}
\* The paths and contents the method is called with: existing and missing files
\* and directories, a path below a missing directory, a path below a file.
draft == <<"d", "r", "a", "f", "t">>
HandlerPaths ==
    {<<docs>>, <<docs, indexMd>>, <<docs, guides>>, <<docs, guides, getStarted>>,
     <<docs, draft, indexMd>>, <<docs, indexMd, draft>>, <<draft>>}
HandlerContents == {<<>>, <<"#", " ", "X">>}
HandlerInit ==
    /\ fs \in HandlerSystems
    /\ fs0 = fs
    /\ config = Config(TRUE)
    /\ handler \in Handlers
    /\ pc = "start"
    /\ existing_dirs = <<>>
    /\ old_dir = <<>>
    /\ remaining = {}
    /\ pending = {}
    /\ dirs = <<>>
    /\ todo = <<>>
    /\ by = ""
    /\ calls = <<>>
    /\ asked = <<>>
    /\ resp = NoInput
    /\ error = ""
    /\ raised = <<>>
    /\ data = <<>>
    /\ args = <<>>
    /\ exit_code = -1
    /\ given = <<>>
    /\ formatted = <<>>
    /\ run = 1

\* Configurations with more to materialize: two directories of two files and two
\* top-level files, or one directory of one file and no top-level file, or one
\* directory and a top level that each hold two names with the same sanitized
\* form; names with capitals, spaces and other extensions; three numbering policies, one of
\* them with prefixes wider than padding_width. As in the test fixtures
\* use_markdown_headings is true when the manager is built.
reference == <<"r", "e", "f", "e", "r", "e", "n", "c", "e">>
getStartedTitle == <<"G", "e", "t", " ", "S", "t", "a", "r", "t", "e", "d">> \o md
Structures ==
    {[directories |-> <<[name |-> guides, files |-> <<getStartedTitle, notes \o txt>>],
                        [name |-> reference,
                         files |-> << <<"a", "p", "i">> \o md, <<"A", "P", "I", ".", "M", "D">> >>]>>,
      top_level_files |-> << indexMd, <<"C", "h", "a", "n", "g", "e", " ", "L", "o", "g">> \o md >>],
     [directories |-> <<[name |-> guides, files |-> <<getStartedTitle>>]>>,
      top_level_files |-> <<>>],
     [directories |-> <<[name |-> guides, files |-> <<getStartedTitle, getStarted>>]>>,
      top_level_files |-> << indexMd, <<"I", "n", "d", "e", "x">> \o md >>]}
Numberings ==
    {[enabled |-> e, initial_prefix |-> 10, dir_start_prefix |-> n[1], prefix_step |-> n[2],
      padding_width |-> n[3]] :
        e \in BOOLEAN, n \in {<<20, 10, 3>>, <<7, 500, 3>>, <<20, 10, 1>>}}
MaterializeConfigs ==
    {[docs_dir |-> docs, numbering |-> n, directories |-> st.directories,
      top_level_files |-> st.top_level_files, use_markdown_headings |-> TRUE] :
        n \in Numberings, st \in Structures}
\* Projects without candidates and without directories in docs/: docs/ missing,
\* empty, with README.md, or with README.md and index.md.
MaterializeSystems ==
    {MkFs(TargetDirs(present, 0, {}), TargetFiles(t, 0)) : present \in BOOLEAN, t \in 0..2}
MaterializeInit ==
    /\ fs \in MaterializeSystems
    /\ fs0 = fs
    /\ config \in MaterializeConfigs
    /\ handler \in Handlers
    /\ pc = "start"
    /\ existing_dirs = <<>>
    /\ old_dir = <<>>
    /\ remaining = {}
    /\ pending = {}
    /\ dirs = <<>>
    /\ todo = <<>>
    /\ by = ""
    /\ calls = <<>>
    /\ asked = <<>>
    /\ resp = NoInput
    /\ error = ""
    /\ raised = <<>>
    /\ data = <<>>
    /\ args = <<>>
    /\ exit_code = -1
    /\ given = <<>>
    /\ formatted = <<>>
    /\ run = 1

\* ------------------------------------------------------------ calls and prompts
\* A file_handler call: the method, its arguments, the function that made it and
\* whether the path existed when it was made.
Call(op, path, content, who, existed) ==
    [op |-> op, path |-> path, content |-> content, by |-> who, existed |-> existed]

\* What the operator meant by an input, read off the text itself: "y" (either
\* case, spaces around it) is yes; a decimal number (spaces around it, an optional
\* plus sign) is that number.
NotBlank(c) == c # " "
SaysYes(r) == r.exc = "none" /\ SelectSeq(r.text, NotBlank) \in {<<"y">>, <<"Y">>}
NotBlankOrPlus(c) == c \notin {" ", "+"}
Denotes(r, k) == r.exc = "none" /\ SelectSeq(r.text, NotBlankOrPlus) = DecimalOf(k)
Picks(r, n) == \E k \in 1..n : Denotes(r, k)
Picked(r, n) == IF Picks(r, n) THEN CHOOSE k \in 1..n : Denotes(r, k) ELSE 0

\* An input() call: the question, the paths its text names, and what the operator
\* meant: for a yes/no question 1 (yes) or 0, for a chooser over n entries the
\* entry picked (1..n) or 0.
Answer(kind, paths, r, n) ==
    [kind |-> kind, paths |-> paths,
     said |-> IF n = 0 THEN (IF SaysYes(r) THEN 1 ELSE 0) ELSE Picked(r, n)]

\* A loop of file_handler.remove_dir(path) calls, run until the handler asks the
\* operator, a call raises FileSystemError, or the loop ends.  The chooser of
\* _cleanup_mismatched_content ("multi") skips a path that no longer exists.
RECURSIVE RemoveDirs(_, _, _, _, _)
RemoveDirs(h, f, cs, paths, who) ==
    IF paths = <<>> THEN [status |-> "done", fs |-> f, calls |-> cs, todo |-> <<>>, exc |-> <<>>]
    ELSE IF who = "multi" /\ ~Exists(f, Head(paths)) THEN RemoveDirs(h, f, cs, Tail(paths), who)
    ELSE LET path == Head(paths)
             cs2 == Append(cs, Call("remove_dir", path, <<>>, who, Exists(f, path)))
         IN IF h = "interactive" /\ InteractiveAsks(f, path)
            THEN [status |-> "prompt", fs |-> f, calls |-> cs2, todo |-> paths, exc |-> <<>>]
            ELSE LET r == IF h = "silent" THEN SilentRemoveDir(f, path)
                          ELSE IF h = "dryrun" THEN DryRunRemoveDir(f, path)
                          ELSE Ok(f)
                 IN IF r.ok THEN RemoveDirs(h, r.fs, cs2, Tail(paths), who)
                    ELSE [status |-> "error", fs |-> r.fs, calls |-> cs2, todo |-> <<>>,
                          exc |-> r.exc]

\* A variant of After that asks the source-removal question again once the source
\* has been dealt with.
AfterAsksAgain(who) == IF who = "migrate" THEN "ask_remove_source" ELSE "cleanup"
\* A variant of After that goes from the migration straight to the reconciliation.
AfterSkipsTarget(who) == "cleanup"
\* Where the run continues once the loop has ended.
After(who) == IF who = "migrate" THEN "ensure" ELSE "cleanup"
\* _migrate_directory wraps every exception as "Error during migration".
Cause(who) == IF who = "migrate" THEN "migration" ELSE "remove_dir"
\* A variant of migrate_raises that lets the exception through as it is.
migrate_reraises(exc) == exc
\* _migrate_directory: except Exception as e: raise FileSystemError(...)
migrate_raises(exc) == <<"FileSystemError">> \o exc
\* A variant of create_structure_raises that lets the exception through as it is.
create_structure_reraises(exc) == exc
\* create_structure: except Exception as e: raise DocumentationError(...)
create_structure_raises(exc) == <<"DocumentationError">> \o exc
\* What leaves create_structure when a remove_dir call of `who` raised exc.
Leaves(who, exc) ==
    create_structure_raises(IF who = "migrate" THEN migrate_raises(exc) ELSE exc)

Removing(res, who) ==
    /\ fs' = res.fs
    /\ calls' = res.calls
    /\ todo' = res.todo
    /\ by' = who
    /\ pc' = IF res.status = "prompt" THEN "ask_handler_remove"
             ELSE IF res.status = "error" THEN "failed"
             ELSE After(who)
    /\ error' = IF res.status = "error" THEN Cause(who) ELSE error
    /\ raised' = IF res.status = "error" THEN Leaves(who, res.exc) ELSE raised

\* ------------------------------------------------------------ handle_directory_change
\* A variant of FirstStep that checks the target only on the single-candidate branch.
FirstStepAsksFirst(f, new_dir, found) ==
    IF found = <<>> THEN "return"
    ELSE IF Len(found) > 1 THEN "select"
    ELSE IF Exists(f, new_dir) /\ HasContent(f, new_dir) THEN "raise"
    ELSE "confirm"
\* What handle_directory_change does before its first input().
FirstStep(f, new_dir, found) ==
    IF found = <<>> THEN "return"
    ELSE IF Exists(f, new_dir) /\ HasContent(f, new_dir) THEN "raise"
    ELSE IF Len(found) > 1 THEN "select"
    ELSE "confirm"

HandleDirectoryChange ==
    /\ pc = "start"
    /\ LET new_dir == DocsDir(config)
           lost == find_raises(fs, project_root)
           found == IF lost THEN <<>> ELSE find_isms_directories(fs, project_root, new_dir)
           step == IF lost THEN "lost" ELSE FirstStep(fs, new_dir, found)
       IN /\ existing_dirs' = found
          /\ old_dir' = IF step = "confirm" THEN found[1] ELSE old_dir
          /\ pc' = IF step = "return" THEN "ensure"
                   ELSE IF step \in {"raise", "lost"} THEN "failed"
                   ELSE IF step = "select" THEN "ask_select"
                   ELSE "ask_migrate"
          /\ error' = IF step = "raise" THEN "target_has_files"
                      ELSE IF step = "lost" THEN "find" ELSE error
          /\ raised' = IF step = "raise" THEN create_structure_raises(<<"FileSystemError">>)
                       ELSE IF step = "lost" THEN create_structure_raises(<<"NotADirectoryError">>)
                       ELSE raised
    /\ resp' = NoInput
    /\ UNCHANGED <<run, given, formatted, args, exit_code, data, fs, fs0, config, handler, remaining, pending, dirs, todo, by, calls, asked>>

\* "if new_dir.exists(): self._cleanup_empty_dirs(new_dir)"
Prune(f, new_dir) == IF Exists(f, new_dir) THEN cleanup_empty_dirs(f, new_dir) ELSE Ok(f)
\* The pruning, then the head of _migrate_directory inside its try:
\* destination.mkdir(parents=True, exist_ok=True)
PrepareDestination(f, destination) ==
    IF Prune(f, destination).ok
    THEN LET r == MkdirParents(Prune(f, destination).fs, destination)
         IN IF r.ok THEN r ELSE [r EXCEPT !.exc = migrate_raises(@)]
    ELSE Prune(f, destination)
SourceFiles(f, source) == {p \in Rglob(f, source) : IsFile(f, p)}

\* The tail of handle_directory_change once a source is chosen.
Migrate(source) ==
    LET r == PrepareDestination(fs, DocsDir(config))
    IN /\ old_dir' = source
       /\ fs' = r.fs
       /\ remaining' = IF r.ok THEN SourceFiles(r.fs, source) ELSE {}
       /\ pc' = IF ~r.ok THEN "failed"
                ELSE IF SourceFiles(r.fs, source) = {} THEN "ask_remove_source"
                ELSE "copy"
       /\ error' = IF r.ok THEN error
                   ELSE IF Prune(fs, DocsDir(config)).ok THEN "migration" ELSE "prune"
       /\ raised' = IF r.ok THEN raised ELSE create_structure_raises(r.exc)

NoMigration ==
    /\ pc' = "ensure"
    /\ UNCHANGED <<fs, old_dir, remaining, error, raised>>

\* input("Enter the number of the directory to migrate from (or 'n' to skip): ")
AnswerSelect ==
    /\ pc = "ask_select"
    /\ \E r \in SelectInputs :
        LET c == Choice(r, Len(existing_dirs))
        IN /\ resp' = r
           /\ asked' = Append(asked, Answer("select", {}, r, Len(existing_dirs)))
           /\ IF c.kind = "index" THEN Migrate(existing_dirs[c.idx + 1]) ELSE NoMigration
    /\ UNCHANGED <<run, given, formatted, args, exit_code, data, fs0, config, handler, existing_dirs, pending, dirs, todo, by, calls>>

\* _confirm_migration(old_dir, new_dir)
AnswerMigrate ==
    /\ pc = "ask_migrate"
    /\ \E r \in YesNoInputs :
        /\ resp' = r
        /\ asked' = Append(asked, Answer("migrate", {old_dir, DocsDir(config)}, r, 0))
        /\ IF Confirmed(r) THEN Migrate(old_dir) ELSE NoMigration
    /\ UNCHANGED <<run, given, formatted, args, exit_code, data, fs0, config, handler, existing_dirs, pending, dirs, todo, by, calls>>

\* A variant of CopyOne that drops the directories between source and the file.
CopyOneFlat(f, source, destination, source_path) ==
    WriteFile(f, destination \o <<Name(source_path)>>, f.files[source_path])
\* One file of the copy loop: dest_path.parent.mkdir(parents=True, exist_ok=True);
\* dest_path.write_bytes(source_path.read_bytes())
CopyOne(f, source, destination, source_path) ==
    LET dest_path == destination \o SubSeq(source_path, Len(source) + 1, Len(source_path))
        r == MkdirParents(f, Parent(dest_path))
    IN IF ~r.ok THEN r
       ELSE IF ~CanRead(r.fs, source_path) THEN Raise(r.fs, "PermissionError")
       ELSE WriteFile(r.fs, dest_path, f.files[source_path])

\* One iteration of "for source_path in source.rglob('*')" on a regular file;
\* rglob yields in directory order, which the program does not control.
CopyFile ==
    /\ pc = "copy"
    /\ \E source_path \in remaining :
        LET r == CopyOne(fs, old_dir, DocsDir(config), source_path)
        IN /\ fs' = r.fs
           /\ remaining' = IF r.ok THEN remaining \ {source_path} ELSE {}
           /\ pc' = IF ~r.ok THEN "failed"
                    ELSE IF remaining = {source_path} THEN "ask_remove_source"
                    ELSE "copy"
           /\ error' = IF r.ok THEN error ELSE "migration"
           /\ raised' = IF r.ok THEN raised
                        ELSE create_structure_raises(migrate_raises(r.exc))
    /\ resp' = NoInput
    /\ UNCHANGED <<run, given, formatted, args, exit_code, data, fs0, config, handler, existing_dirs, old_dir, pending, dirs, todo, by,
                   calls, asked>>

\* _confirm_removal(source), then self.file_handler.remove_dir(source)
AnswerRemoveSource ==
    /\ pc = "ask_remove_source"
    /\ \E r \in YesNoInputs :
        /\ resp' = r
        /\ asked' = Append(asked, Answer("remove_source", {old_dir}, r, 0))
        /\ IF Confirmed(r)
           THEN Removing(RemoveDirs(handler, fs, calls, <<old_dir>>, "migrate"), "migrate")
           ELSE /\ pc' = "ensure"
                /\ UNCHANGED <<fs, calls, todo, by, error, raised>>
    /\ UNCHANGED <<run, given, formatted, args, exit_code, data, fs0, config, handler, existing_dirs, old_dir, remaining, pending, dirs>>

\* InteractiveFileHandler._confirm_removal(path, is_dir=True) inside remove_dir,
\* then the rest of the loop that called remove_dir
AnswerHandlerRemove ==
    /\ pc = "ask_handler_remove"
    /\ \E r \in YesNoInputs :
        LET path == Head(todo)
            done == InteractiveRemoveDir(fs, path, Confirmed(r))
        IN /\ resp' = r
           /\ asked' = Append(asked, Answer("handler_remove", {path}, r, 0))
           /\ IF done.ok
              THEN Removing(RemoveDirs(handler, done.fs, calls, Tail(todo), by), by)
              ELSE /\ pc' = "failed"
                   /\ error' = Cause(by)
                   /\ raised' = Leaves(by, done.exc)
                   /\ UNCHANGED <<fs, calls, todo, by>>
    /\ UNCHANGED <<run, given, formatted, args, exit_code, data, fs0, config, handler, existing_dirs, old_dir, remaining, pending, dirs>>

\* ------------------------------------------------------------ mismatch reconciliation
\* all_dirs of _cleanup_mismatched_content: both glob patterns, directories only, no .git
\* A variant of AllDirs that always lists project_root/docs.
AllDirsOfDocs(f, directory) ==
    {d \in Iterdir(f, project_root \o <<docs>>) : IsDir(f, d) /\ Name(d) # git}
AllDirs(f, directory) == {d \in Iterdir(f, directory) : IsDir(f, d) /\ Name(d) # git}
\* dir_groups.values()
DirGroups(f, directory) ==
    {{d \in AllDirs(f, directory) : get_base_name(d) = get_base_name(e)} :
        e \in AllDirs(f, directory)}

\* docs_dir.mkdir(exist_ok=True), then _cleanup_mismatched_content up to its loop
EnsureDocsDir ==
    /\ pc = "ensure"
    /\ LET r == MkdirExistOk(fs, DocsDir(config))
       IN /\ fs' = r.fs
          /\ pc' = IF r.ok THEN "cleanup" ELSE "failed"
          /\ error' = IF r.ok THEN error ELSE "mkdir"
          /\ raised' = IF r.ok THEN raised ELSE create_structure_raises(r.exc)
          /\ pending' = IF r.ok THEN DirGroups(r.fs, DocsDir(config)) ELSE {}
    /\ resp' = NoInput
    /\ UNCHANGED <<run, given, formatted, args, exit_code, data, fs0, config, handler, existing_dirs, old_dir, remaining, dirs, todo, by,
                   calls, asked>>

\* A variant of Mismatched for which every lone directory disagrees.
MismatchedAlways(cfg, dir_path) == TRUE
\* A variant of Mismatched that only looks for unnumbered directories.
MismatchedWhenNumbered(cfg, dir_path) ==
    cfg.numbering.enabled /\ ~HasNumber(Name(dir_path))
\* The single-directory branch: does the directory's format disagree with the config?
Mismatched(cfg, dir_path) ==
    \/ cfg.numbering.enabled /\ ~HasNumber(Name(dir_path))
    \/ ~cfg.numbering.enabled /\ HasNumber(Name(dir_path))

\* One iteration of "for base_name, dirs in dir_groups.items()" up to its input();
\* the dict is filled from a set, so the order of the groups is not fixed.
HandleGroup ==
    /\ pc = "cleanup"
    /\ \E g \in pending :
        /\ pending' = pending \ {g}
        /\ dirs' = SortedPaths(g)
        /\ IF Cardinality(g) > 1
           THEN /\ pc' = "ask_keep"
                /\ UNCHANGED <<fs, calls, todo, by, error, raised>>
           ELSE IF Mismatched(config, SortedPaths(g)[1])
           THEN Removing(RemoveDirs(handler, fs, calls, SortedPaths(g), "single"), "single")
           ELSE /\ pc' = "cleanup"
                /\ UNCHANGED <<fs, calls, todo, by, error, raised>>
    /\ resp' = NoInput
    /\ UNCHANGED <<run, given, formatted, args, exit_code, data, fs0, config, handler, existing_dirs, old_dir, remaining, asked>>

\* A variant of OtherVersions that compares the 1-based position with the 0-based idx.
OtherVersionsOffByOne(versions, idx) ==
    LET keep == {i \in DOMAIN versions : i # idx}
        F[i \in 0..Len(versions)] ==
            IF i = 0 THEN <<>>
            ELSE IF i \in keep THEN Append(F[i - 1], versions[i]) ELSE F[i - 1]
    IN F[Len(versions)]
\* "for i, dir_path in enumerate(dirs): if i != idx": the versions to remove
OtherVersions(versions, idx) ==
    LET keep == {i \in DOMAIN versions : i # idx + 1}
        F[i \in 0..Len(versions)] ==
            IF i = 0 THEN <<>>
            ELSE IF i \in keep THEN Append(F[i - 1], versions[i]) ELSE F[i - 1]
    IN F[Len(versions)]

\* input("Select which version to keep (or 'n' to skip): ")
AnswerKeep ==
    /\ pc = "ask_keep"
    /\ \E r \in SelectInputs :
        LET c == Choice(r, Len(dirs))
        IN /\ resp' = r
           /\ asked' = Append(asked, Answer("keep", Range(dirs), r, Len(dirs)))
           /\ IF c.kind = "index"
              THEN Removing(RemoveDirs(handler, fs, calls, OtherVersions(dirs, c.idx), "multi"),
                            "multi")
              ELSE /\ pc' = "cleanup"
                   /\ UNCHANGED <<fs, calls, todo, by, error, raised>>
    /\ UNCHANGED <<run, given, formatted, args, exit_code, data, fs0, config, handler, existing_dirs, old_dir, remaining, pending, dirs>>

\* ------------------------------------------------------------ materialization
\* A variant of get_numbered_name that gives every file the first prefix.
get_numbered_name_first(cfg, filename, index) ==
    ZeroPad(DecimalOf(cfg.numbering.prefix_step), cfg.numbering.padding_width)
        \o <<"_">> \o filename
\* DocumentationManager._get_numbered_name
get_numbered_name(cfg, filename, index) ==
    ZeroPad(DecimalOf(index * cfg.numbering.prefix_step), cfg.numbering.padding_width)
        \o <<"_">> \o filename
\* A variant of get_directory_path that numbers directories by prefix_step.
get_directory_path_by_step(cfg, docs_dir, dir_name, index) ==
    IF cfg.numbering.enabled
    THEN docs_dir \o <<ZeroPad(DecimalOf(index * cfg.numbering.prefix_step),
                               cfg.numbering.padding_width) \o <<"_">> \o dir_name>>
    ELSE docs_dir \o <<dir_name>>
\* DocumentationManager._get_directory_path
get_directory_path(cfg, docs_dir, dir_name, index) ==
    IF cfg.numbering.enabled
    THEN docs_dir \o <<ZeroPad(DecimalOf(index * cfg.numbering.dir_start_prefix),
                               cfg.numbering.padding_width) \o <<"_">> \o dir_name>>
    ELSE docs_dir \o <<dir_name>>

\* A variant of FileContent that writes the heading whatever the flag says.
FileContentAlways(cfg, filename) ==
    IF EndsWith(filename, md)
    THEN <<"#", " ">> \o to_title(sanitize(filename)) \o <<"\n">>
    ELSE <<>>
\* DocumentationManager._create_file: the path and the content it passes to create
FinalName(cfg, filename, index) ==
    IF cfg.numbering.enabled THEN get_numbered_name(cfg, sanitize(filename), index)
    ELSE sanitize(filename)
FileContent(cfg, filename) ==
    IF cfg.use_markdown_headings /\ EndsWith(filename, md)
    THEN <<"#", " ">> \o to_title(sanitize(filename)) \o <<"\n">>
    ELSE <<>>

\* A variant of CreateFiles that creates the first file of the list only.
CreateFilesFirstOnly(cfg, h, f, cs, parent_dir, files, index, who) ==
    IF index > Len(files) THEN [ok |-> TRUE, fs |-> f, calls |-> cs, exc |-> <<>>]
    ELSE LET path == parent_dir \o <<FinalName(cfg, files[index], index)>>
             content == FileContent(cfg, files[index])
             r == HandlerCreate(h, f, path, content)
         IN [ok |-> r.ok, fs |-> r.fs, exc |-> r.exc,
             calls |-> Append(cs, Call("create", path, content, who, Exists(f, path)))]
\* "for idx, file in enumerate(files, start=1): self._create_file(parent_dir, file, idx)"
\* from position index on; ok = FALSE when a create raised FileSystemError.
RECURSIVE CreateFiles(_, _, _, _, _, _, _, _)
CreateFiles(cfg, h, f, cs, parent_dir, files, index, who) ==
    IF index > Len(files) THEN [ok |-> TRUE, fs |-> f, calls |-> cs, exc |-> <<>>]
    ELSE LET path == parent_dir \o <<FinalName(cfg, files[index], index)>>
             content == FileContent(cfg, files[index])
             r == HandlerCreate(h, f, path, content)
             cs2 == Append(cs, Call("create", path, content, who, Exists(f, path)))
         IN IF r.ok THEN CreateFiles(cfg, h, r.fs, cs2, parent_dir, files, index + 1, who)
            ELSE [ok |-> FALSE, fs |-> r.fs, calls |-> cs2, exc |-> r.exc]

\* A variant of create_top_level_files that creates README.md even when it exists.
create_top_level_files_with_readme(cfg, h, f, cs, docs_dir) ==
    LET readme_path == docs_dir \o <<README>>
        r == HandlerCreate(h, f, readme_path, <<>>)
        cs2 == Append(cs, Call("create", readme_path, <<>>, "readme", Exists(f, readme_path)))
    IN IF r.ok THEN CreateFiles(cfg, h, r.fs, cs2, docs_dir, cfg.top_level_files, 1, "top_level")
       ELSE [ok |-> FALSE, fs |-> r.fs, calls |-> cs2, exc |-> r.exc]
\* DocumentationManager._create_top_level_files
create_top_level_files(cfg, h, f, cs, docs_dir) ==
    LET readme_path == docs_dir \o <<README>>
        r == IF ~Exists(f, readme_path) THEN HandlerCreate(h, f, readme_path, <<>>) ELSE Ok(f)
        cs2 == IF ~Exists(f, readme_path)
               THEN Append(cs, Call("create", readme_path, <<>>, "readme", FALSE)) ELSE cs
    IN IF r.ok THEN CreateFiles(cfg, h, r.fs, cs2, docs_dir, cfg.top_level_files, 1, "top_level")
       ELSE [ok |-> FALSE, fs |-> r.fs, calls |-> cs2, exc |-> r.exc]

\* DocumentationManager._create_directories from directory idx on
RECURSIVE create_directories(_, _, _, _, _, _)
create_directories(cfg, h, f, cs, docs_dir, idx) ==
    IF idx > Len(cfg.directories) THEN [ok |-> TRUE, fs |-> f, calls |-> cs, exc |-> <<>>]
    ELSE LET dir_path == get_directory_path(cfg, docs_dir, cfg.directories[idx].name, idx)
             made == MkdirExistOk(f, dir_path)
             r == IF made.ok
                  THEN CreateFiles(cfg, h, made.fs, cs, dir_path, cfg.directories[idx].files,
                                   1, "directories")
                  ELSE [ok |-> FALSE, fs |-> f, calls |-> cs, exc |-> made.exc]
         IN IF r.ok THEN create_directories(cfg, h, r.fs, r.calls, docs_dir, idx + 1) ELSE r

\* The loop over dir_groups has ended: self._create_top_level_files(docs_dir)
CreateTopLevelFiles ==
    /\ pc = "cleanup"
    /\ pending = {}
    /\ LET r == create_top_level_files(config, handler, fs, calls, DocsDir(config))
       IN /\ fs' = r.fs
          /\ calls' = r.calls
          /\ pc' = IF r.ok THEN "directories" ELSE "failed"
          /\ error' = IF r.ok THEN error ELSE "create"
          /\ raised' = IF r.ok THEN raised ELSE create_structure_raises(r.exc)
    /\ resp' = NoInput
    /\ UNCHANGED <<run, given, formatted, args, exit_code, data, fs0, config, handler, existing_dirs, old_dir, remaining, pending, dirs, todo,
                   by, asked>>

\* self._create_directories(docs_dir)
CreateDirectories ==
    /\ pc = "directories"
    /\ LET r == create_directories(config, handler, fs, calls, DocsDir(config), 1)
       IN /\ fs' = r.fs
          /\ calls' = r.calls
          /\ pc' = IF r.ok THEN "done" ELSE "failed"
          /\ error' = IF r.ok THEN error ELSE "create"
          /\ raised' = IF r.ok THEN raised ELSE create_structure_raises(r.exc)
    /\ resp' = NoInput
    /\ UNCHANGED <<run, given, formatted, args, exit_code, data, fs0, config, handler, existing_dirs, old_dir, remaining, pending, dirs, todo,
                   by, asked>>

Next ==
    \/ HandleDirectoryChange
    \/ AnswerSelect
    \/ AnswerMigrate
    \/ CopyFile
    \/ AnswerRemoveSource
    \/ AnswerHandlerRemove
    \/ EnsureDocsDir
    \/ HandleGroup
    \/ AnswerKeep
    \/ CreateTopLevelFiles
    \/ CreateDirectories

Spec == Init /\ [][Next]_vars

\* The caller flips config.use_markdown_headings on the config object the manager
\* holds, before it calls create_structure.
ToggleHeadings ==
    /\ pc = "start"
    /\ config' = [config EXCEPT !.use_markdown_headings = ~@]
    /\ UNCHANGED <<run, given, formatted, args, exit_code, data, fs, fs0, handler, pc, existing_dirs, old_dir, remaining, pending, dirs,
                   todo, by, calls, asked, resp, error, raised>>
\* create_structure in a project where nothing is asked: no candidate, no
\* directory in docs/.
MaterializeNext ==
    \/ ToggleHeadings
    \/ HandleDirectoryChange
    \/ EnsureDocsDir
    \/ CreateTopLevelFiles
    \/ CreateDirectories
MaterializeSpec == MaterializeInit /\ [][MaterializeNext]_vars

\* create_structure with the target at docs/ or at the project root itself
\* (docs_dir '.'). Each project holds any of:
\*   tools/notes.txt, and with it .git/HEAD;
\*   below docs/: isms/procedures/q.md, or wiki/records/a.md/ (a directory named
\*   like a markdown file, with nothing in it);
\*   old/ and isms/ as in CandidateFiles;
\*   docs/guides/, and with it docs/010_guides/.
tools == <<"t", "o", "o", "l", "s">>
NestedDirs(extras, inside, variants) ==
    (IF extras = 2 THEN {<<git>>} ELSE {})
        \cup (IF inside = 2 THEN {<<docs, wiki, records, <<"a">> \o md>>} ELSE {})
        \cup (IF variants >= 1 THEN {<<docs, guides>>} ELSE {})
        \cup (IF variants = 2 THEN {<<docs, VariantName(1)>>} ELSE {})
NestedFiles(extras, inside, outside) ==
    (IF extras >= 1 THEN {<< <<tools, notes \o txt>>, <<"T">> >>} ELSE {})
        \cup (IF extras = 2 THEN {<< <<git, <<"H", "E", "A", "D">> >>, <<"H">> >>} ELSE {})
        \cup (IF inside = 1 THEN {<< <<docs, isms, procedures, <<"q">> \o md>>, <<"Q">> >>}
              ELSE {})
        \cup UNION {CandidateFiles[c] : c \in outside}
NestedSystems ==
    {MkFs(NestedDirs(x, n, v), NestedFiles(x, n, o)) :
        x \in 0..2, n \in 0..2, v \in 0..2, o \in SUBSET {1, 2}}
NestedInit ==
    /\ fs \in NestedSystems
    /\ fs0 = fs
    /\ config \in {[Config(e) EXCEPT !.docs_dir = n] : e \in BOOLEAN, n \in {docs, dot}}
    /\ handler \in Handlers
    /\ pc = "start"
    /\ existing_dirs = <<>>
    /\ old_dir = <<>>
    /\ remaining = {}
    /\ pending = {}
    /\ dirs = <<>>
    /\ todo = <<>>
    /\ by = ""
    /\ calls = <<>>
    /\ asked = <<>>
    /\ resp = NoInput
    /\ error = ""
    /\ raised = <<>>
    /\ data = <<>>
    /\ args = <<>>
    /\ exit_code = -1
    /\ given = <<>>
    /\ formatted = <<>>
    /\ run = 1
NestedSpec == NestedInit /\ [][Next]_vars

\* create_structure called twice on the same manager with SilentFileHandler, in a
\* project without candidates. The configurations: Config with numbering on and
\* off, and one with numbering off whose directory is named 010_guides.
RerunConfigs ==
    {Config(TRUE), Config(FALSE),
     [Config(FALSE) EXCEPT !.directories =
         <<[name |-> VariantName(1), files |-> Config(FALSE).directories[1].files]>>]}
RerunSystems ==
    {MkFs(TargetDirs(present, g, v), TargetFiles(t, g)) :
        present \in BOOLEAN, t \in 0..2, g \in 0..3, v \in SUBSET (1..MaxVariants)}
RerunInit ==
    /\ fs \in RerunSystems
    /\ fs0 = fs
    /\ config \in RerunConfigs
    /\ handler = "silent"
    /\ pc = "start"
    /\ existing_dirs = <<>>
    /\ old_dir = <<>>
    /\ remaining = {}
    /\ pending = {}
    /\ dirs = <<>>
    /\ todo = <<>>
    /\ by = ""
    /\ calls = <<>>
    /\ asked = <<>>
    /\ resp = NoInput
    /\ error = ""
    /\ raised = <<>>
    /\ data = <<>>
    /\ args = <<>>
    /\ exit_code = -1
    /\ given = <<>>
    /\ formatted = <<>>
    /\ run = 1
\* The caller calls manager.create_structure(project_root) a second time; fs0 is
\* the file system the first call left.
RunAgain ==
    /\ pc = "done"
    /\ run = 1
    /\ run' = 2
    /\ pc' = "start"
    /\ fs0' = fs
    /\ existing_dirs' = <<>>
    /\ old_dir' = <<>>
    /\ remaining' = {}
    /\ pending' = {}
    /\ dirs' = <<>>
    /\ todo' = <<>>
    /\ by' = ""
    /\ calls' = <<>>
    /\ asked' = <<>>
    /\ resp' = NoInput
    /\ UNCHANGED <<given, formatted, args, exit_code, data, fs, config, handler, error, raised>>
RerunNext ==
    \/ HandleDirectoryChange
    \/ EnsureDocsDir
    \/ HandleGroup
    \/ AnswerKeep
    \/ CreateTopLevelFiles
    \/ CreateDirectories
    \/ RunAgain
RerunSpec == RerunInit /\ [][RerunNext]_vars

\* DirectoryMigrator.find_isms_directories(project_root, new_dir), called on its own:
\* it returns the list or lets the NotADirectoryError of iterdir through.
FindReturns ==
    /\ pc = "start"
    /\ ~find_raises(fs, project_root)
    /\ existing_dirs' = find_isms_directories(fs, project_root, DocsDir(config))
    /\ pc' = "found"
    /\ UNCHANGED <<run, given, formatted, args, exit_code, data, fs, fs0, config, handler, old_dir, remaining, pending, dirs, todo, by,
                   calls, asked, resp, error, raised>>
FindRaises ==
    /\ pc = "start"
    /\ find_raises(fs, project_root)
    /\ pc' = "failed"
    /\ error' = "find"
    /\ raised' = <<"NotADirectoryError">>
    /\ UNCHANGED <<run, given, formatted, args, exit_code, data, fs, fs0, config, handler, existing_dirs, old_dir, remaining, pending,
                   dirs, todo, by, calls, asked, resp>>
FindNext == FindReturns \/ FindRaises

\* file_handler.remove(path) / remove_dir(path) for a handler that does not ask, or
\* once _confirm_removal returned `confirmed`.
HandlerRemoval(h, op, f, path, confirmed) ==
    IF h = "dryrun"
    THEN (IF op = "remove" THEN DryRunRemove(f, path) ELSE DryRunRemoveDir(f, path))
    ELSE IF h = "silent"
    THEN (IF op = "remove" THEN SilentRemove(f, path) ELSE SilentRemoveDir(f, path))
    ELSE IF ~Exists(f, path) THEN Ok(f)
    ELSE IF op = "remove" THEN InteractiveRemove(f, path, confirmed)
    ELSE InteractiveRemoveDir(f, path, confirmed)
\* The call has ended: it returned or raised res.exc.
HandlerEnds(res) ==
    /\ fs' = res.fs
    /\ pc' = IF res.ok THEN "returned" ELSE "raised"
    /\ raised' = res.exc
\* A file_handler method is called on its own; the interactive handler stops at
\* input() when it is asked to remove a path that exists.
HandlerCall ==
    /\ pc = "start"
    /\ \E op \in {"create", "remove", "remove_dir"}, path \in HandlerPaths,
          content \in HandlerContents :
          /\ op # "create" => content = <<>>
          /\ calls' = <<Call(op, path, content, "caller", Exists(fs, path))>>
          /\ IF op # "create" /\ handler = "interactive" /\ InteractiveAsks(fs, path)
             THEN pc' = "confirm_removal" /\ UNCHANGED <<fs, raised>>
             ELSE HandlerEnds(IF op = "create" THEN HandlerCreate(handler, fs, path, content)
                              ELSE HandlerRemoval(handler, op, fs, path, FALSE))
    /\ UNCHANGED <<run, given, formatted, args, exit_code, data, fs0, config, handler, existing_dirs, old_dir, remaining, pending, dirs,
                   todo, by, asked, resp, error>>
\* input() of _confirm_removal returns or raises, and the call ends.
HandlerAnswer ==
    /\ pc = "confirm_removal"
    /\ \E r \in YesNoInputs :
          /\ resp' = r
          /\ asked' = Append(asked, Answer("handler_remove", {calls[1].path}, r, 0))
          /\ HandlerEnds(HandlerRemoval(handler, calls[1].op, fs, calls[1].path, Confirmed(r)))
    /\ UNCHANGED <<run, given, formatted, args, exit_code, data, fs0, config, handler, existing_dirs, old_dir, remaining, pending, dirs,
                   todo, by, calls, error>>
HandlerNext == HandlerCall \/ HandlerAnswer
\* What the call that has ended logged.
HandlerLog ==
    IF handler = "dryrun"
    THEN DryRunLog(calls[1].op, fs0, calls[1].path, calls[1].content)
    ELSE WritingLog(handler, calls[1].op, calls[1].path, calls[1].existed, Raises(resp),
                    Confirmed(resp), [ok |-> pc = "returned"])
HandlerSpec == HandlerInit /\ [][HandlerNext]_vars
FindSpec == FindInit /\ [][FindNext]_vars
FaultSpec == FaultInit /\ [][Next]_vars
\* create_structure when every prompt gets a response, an end of input or an
\* interrupt and every file-system call returns.
\* The projects: any candidates, docs/ missing or present without a file, with or
\* without an empty guides/ and a 010_guides/ next to it; each of them also with no
\* permission on the empty guides/ or with a project root that cannot be written;
\* docs as a regular file; and a docs/ that holds files next to a candidate.
LiveBase ==
    {MkFs(TargetDirs(present, g, v), UNION {CandidateFiles[c] : c \in cs}) :
        cs \in SUBSET (1..MaxCand), present \in BOOLEAN, g \in 0..1, v \in SUBSET {1}}
LiveSystems ==
    LiveBase
        \cup UNION {{[f EXCEPT !.denied = {p}] : p \in Deniable(f) \ {notesTxt}} : f \in LiveBase}
        \cup {[f EXCEPT !.readonly = {project_root}] : f \in LiveBase}
        \cup {DocsAsFile({1}), MkFs(TargetDirs(TRUE, 0, {}), TargetFiles(2, 0) \cup CandidateFiles[1])}
LiveInit == InitWith(LiveSystems)
\* Every prompt is answered and every call returns: each step that stays possible
\* is taken. CreateTopLevelFiles and CreateDirectories are possible exactly when
\* pc = "cleanup" with no group pending, and when pc = "directories", and taking
\* them ends that, so weak fairness of the two is written out on pc.
LiveSpec ==
    /\ LiveInit
    /\ [][Next]_vars
    /\ WF_vars(HandleDirectoryChange)
    /\ WF_vars(AnswerSelect)
    /\ WF_vars(AnswerMigrate)
    /\ WF_vars(CopyFile)
    /\ WF_vars(AnswerRemoveSource)
    /\ WF_vars(AnswerHandlerRemove)
    /\ WF_vars(EnsureDocsDir)
    /\ WF_vars(HandleGroup)
    /\ WF_vars(AnswerKeep)
    /\ []<>~(pc = "cleanup" /\ pending = {})
    /\ []<>(pc # "directories")

\* ------------------------------------------------------------ load_config
\* A value of the YAML mapping by its Python type: n is the number of an int or a
\* bool (True is 1), s the text of a str. Absent marks a key the mapping lacks.
PyBool(b) == [t |-> "bool", n |-> IF b THEN 1 ELSE 0, s |-> <<>>]
PyInt(k) == [t |-> "int", n |-> k, s |-> <<>>]
PyStr(x) == [t |-> "str", n |-> 0, s |-> x]
None == [t |-> "NoneType", n |-> 0, s |-> <<>>]
Absent == [t |-> "absent", n |-> 0, s |-> <<>>]

\* A collection of the mapping: a dict of directories (name and list of files, in
\* the order of the file) or a list of file names; items is empty for other types.
Dict(items) == [t |-> "dict", items |-> items]
List(items) == [t |-> "list", items |-> items]
NoItems(type) == [t |-> type, items |-> <<>>]

Passes == [exc |-> <<>>, message |-> ""]
DocumentationError(message, cause) ==
    [exc |-> <<"DocumentationError">> \o cause, message |-> message]
TypeError == [exc |-> <<"TypeError">>, message |-> "'<' not supported"]

\* The outcome of the first statement that raises, Passes if none does.
FirstRaised(outcomes) ==
    IF \E i \in DOMAIN outcomes : outcomes[i].exc # <<>>
    THEN outcomes[CHOOSE i \in DOMAIN outcomes :
                      /\ outcomes[i].exc # <<>>
                      /\ \A j \in 1..(i - 1) : outcomes[j].exc = <<>>]
    ELSE Passes

RaiseIf(cond, message) == IF cond THEN DocumentationError(message, <<>>) ELSE Passes

HasSeparator(s) == "/" \in Range(s) \/ "\\" \in Range(s)

NumberingKeys ==
    {"use_numbered_prefix", "initial_prefix", "dir_start_prefix", "prefix_step",
     "padding_width"}

NumberingConfig_from_dict(d) ==
    IF \E k \in NumberingKeys : d[k].t = "absent"
    THEN DocumentationError("Missing required numbering configuration", <<"KeyError">>)
    ELSE Passes

DocumentStructure_from_dict(d) ==
    RaiseIf(d.directories.t # "dict", "directories must be a dictionary")

\* The value of mkdocs_config by its Python type, with the keys of a mapping.
MkDocsData(type, keys) == [t |-> type, n |-> 0, s |-> <<>>, keys |-> keys]

\* bool(value): a number other than 0, a text or mapping that is not empty.
IsTrue(value) ==
    CASE value.t \in {"bool", "int"} -> value.n # 0
      [] value.t = "str" -> value.s # <<>>
      [] value.t = "dict" -> value.keys # {}
      [] OTHER -> FALSE

\* mkdocs_data.get(...) of a text raises AttributeError, which from_dict lets through.
MkDocsConfig_from_dict(d) ==
    IF IsTrue(d.mkdocs_config) /\ d.mkdocs_config.t # "dict"
    THEN [exc |-> <<"AttributeError">>, message |-> "'str' object has no attribute 'get'"]
    ELSE Passes

\* data.get("docs_dir", data.get("base_dir"))
docs_dir_of(d) == IF d.docs_dir.t = "absent" THEN d.base_dir ELSE d.docs_dir

StructureConfig_from_dict(d) ==
    LET docs_dir == docs_dir_of(d)
        outcome ==
            FirstRaised(<<
                RaiseIf(docs_dir.t \in {"absent", "NoneType"},
                        "Missing required configuration: docs_dir"),
                RaiseIf(docs_dir.t # "str", "docs_dir must be a string"),
                RaiseIf(HasSeparator(docs_dir.s),
                        "Documentation directory name cannot contain path separators"),
                NumberingConfig_from_dict(d),
                DocumentStructure_from_dict(d),
                IF d.use_markdown_headings.t = "absent"
                THEN DocumentationError("Missing required configuration key", <<"KeyError">>)
                ELSE Passes,
                MkDocsConfig_from_dict(d) >>)
    IN [exc |-> outcome.exc,
        message |-> outcome.message,
        config |->
            [docs_dir |-> docs_dir,
             numbering |-> [enabled |-> d.use_numbered_prefix,
                            initial_prefix |-> d.initial_prefix,
                            dir_start_prefix |-> d.dir_start_prefix,
                            prefix_step |-> d.prefix_step,
                            padding_width |-> d.padding_width],
             directories |-> d.directories.items,
             top_level_files |-> IF d.top_level_files.t = "absent" THEN List(<<>>)
                                 ELSE d.top_level_files,
             use_markdown_headings |-> d.use_markdown_headings,
             generate_mkdocs |-> IF d.generate_mkdocs.t = "absent" THEN PyBool(FALSE)
                                 ELSE d.generate_mkdocs,
             mkdocs |-> IF IsTrue(d.mkdocs_config) THEN MkDocsData("MkDocsConfig", d.mkdocs_config.keys)
                        ELSE MkDocsData("NoneType", {})]]

\* value < 1: a number compares, anything else raises TypeError.
BelowOne(value, message) ==
    IF value.t \in {"int", "bool"} THEN RaiseIf(value.n < 1, message) ELSE TypeError

NumberingConfig_validate(numbering) ==
    FirstRaised(<<
        BelowOne(numbering.initial_prefix, "initial_prefix must be positive"),
        BelowOne(numbering.dir_start_prefix, "dir_start_prefix must be positive"),
        BelowOne(numbering.prefix_step, "prefix_step must be positive"),
        BelowOne(numbering.padding_width, "padding_width must be positive") >>)

FileNameCheck(file, invalid) ==
    FirstRaised(<<
        RaiseIf(file = <<>>, invalid),
        RaiseIf(HasSeparator(file), "File names cannot contain path separators") >>)

FileNamesCheck(files, invalid) == [i \in DOMAIN files |-> FileNameCheck(files[i], invalid)]

DirectoryNameCheck(name) ==
    FirstRaised(<<
        RaiseIf(name = <<>>, "Invalid directory name"),
        RaiseIf(HasSeparator(name), "Directory names cannot contain path separators") >>)

DocumentStructure_validate(c) ==
    FirstRaised(
        << RaiseIf(c.directories = <<>>, "At least one directory must be configured") >>
        \o [i \in DOMAIN c.directories |->
                FirstRaised(<< DirectoryNameCheck(c.directories[i].name) >>
                            \o FileNamesCheck(c.directories[i].files, "Invalid file name in"))]
        \o << RaiseIf(c.top_level_files.t # "list", "top_level_files must be a list") >>
        \o FileNamesCheck(c.top_level_files.items, "Invalid top-level file name"))

StructureConfig_validate(c) ==
    FirstRaised(<<
        RaiseIf(c.docs_dir.t # "str", "docs_dir must be a string"),
        RaiseIf(c.docs_dir.s = <<>>, "docs_dir cannot be empty"),
        RaiseIf(c.use_markdown_headings.t # "bool", "use_markdown_headings must be a boolean"),
        RaiseIf(c.generate_mkdocs.t # "bool", "generate_mkdocs must be a boolean"),
        NumberingConfig_validate(c.numbering),
        DocumentStructure_validate(c) >>)

\* A variant of load_config_except that lets every exception through as it is.
load_config_reraises(outcome) == outcome
\* except Exception: a DocumentationError passes, anything else is replaced by one.
load_config_except(outcome) ==
    IF outcome.exc = <<>> \/ outcome.exc[1] = "DocumentationError" THEN outcome
    ELSE DocumentationError("Error loading configuration", outcome.exc)

\* The mapping of a valid configuration file.
guidesDir == [name |-> guides, files |-> << getStarted >>]
BaseData ==
    [file |-> "mapping",
     docs_dir |-> PyStr(docs),
     base_dir |-> Absent,
     use_numbered_prefix |-> PyBool(TRUE),
     initial_prefix |-> PyInt(10),
     dir_start_prefix |-> PyInt(20),
     prefix_step |-> PyInt(10),
     padding_width |-> PyInt(3),
     directories |-> Dict(<< guidesDir >>),
     top_level_files |-> List(<< indexMd >>),
     use_markdown_headings |-> PyBool(TRUE),
     generate_mkdocs |-> Absent,
     mkdocs_config |-> MkDocsData("absent", {})]

slashed == <<"a", "/", "b">>
backslashed == <<"a", "\\", "b">>
BadNames == {<<>>, slashed, backslashed}
no == <<"n", "o">>
Flags == {PyBool(TRUE), PyBool(FALSE), PyStr(no), PyInt(0), PyInt(1), None, Absent}
Numbers(n) == {PyInt(n), PyInt(1), PyInt(0), PyInt(-1), PyBool(FALSE), PyStr(<<"1">>), None, Absent}

Values(key) ==
    CASE key = "file" -> {"mapping", "absent", "malformed", "list"}
      [] key = "docs_dir" -> {PyStr(docs), PyInt(1), None, Absent} \cup {PyStr(x) : x \in BadNames}
      [] key = "base_dir" -> {Absent, PyStr(docs), PyStr(slashed)}
      [] key \in {"use_numbered_prefix", "use_markdown_headings", "generate_mkdocs"} -> Flags
      [] key = "initial_prefix" -> Numbers(10)
      [] key = "dir_start_prefix" -> Numbers(20)
      [] key = "prefix_step" -> Numbers(10)
      [] key = "padding_width" -> Numbers(3)
      [] key = "directories" ->
            {Dict(<< guidesDir >>), Dict(<<>>), NoItems("list"), NoItems("absent"),
             Dict(<< guidesDir, [name |-> reference, files |-> <<>>] >>)}
            \cup {Dict(<< [name |-> x, files |-> <<>>] >>) : x \in BadNames}
            \cup {Dict(<< guidesDir, [name |-> reference, files |-> << x >>] >>) :
                     x \in BadNames}
      [] key = "top_level_files" ->
            {List(<< indexMd >>), List(<<>>), NoItems("absent"), NoItems("str")}
            \cup {List(<< indexMd, x >>) : x \in BadNames}
      [] key = "mkdocs_config" ->
            {MkDocsData("absent", {}), MkDocsData("dict", {}),
             MkDocsData("dict", {"site_name"}),
             [MkDocsData("str", {}) EXCEPT !.s = <<"x">>]}

LoadInit ==
    /\ data = BaseData
    /\ config = <<>>
    /\ pc = "start"
    /\ error = ""
    /\ raised = <<>>
    /\ fs = MkFs({}, {})
    /\ fs0 = fs
    /\ handler = ""
    /\ existing_dirs = <<>>
    /\ old_dir = <<>>
    /\ remaining = {}
    /\ pending = {}
    /\ dirs = <<>>
    /\ todo = <<>>
    /\ by = ""
    /\ calls = <<>>
    /\ asked = <<>>
    /\ resp = NoInput
    /\ args = <<>>
    /\ exit_code = -1
    /\ given = <<>>
    /\ formatted = <<>>
    /\ run = 1

LoadEnds(outcome) ==
    /\ pc' = "rejected"
    /\ raised' = load_config_except(outcome).exc
    /\ error' = load_config_except(outcome).message

\* Before it is loaded the configuration file is edited: one key gets another
\* value, as long as fewer than MaxChanged keys differ from the valid file.
EditFile ==
    /\ pc = "start"
    /\ Cardinality({k \in DOMAIN BaseData : data[k] # BaseData[k]}) < MaxChanged
    /\ \E key \in DOMAIN BaseData : \E v \in Values(key) : data' = [data EXCEPT ![key] = v]
    /\ UNCHANGED <<run, given, formatted, args, exit_code, config, pc, raised, error, fs, fs0, handler, existing_dirs, old_dir,
                   remaining, pending, dirs, todo, by, calls, asked, resp>>

\* config_path.exists(), yaml.safe_load(f) and isinstance(data, dict)
ReadFile ==
    /\ pc = "start"
    /\ CASE data.file = "absent" ->
              LoadEnds(DocumentationError("Configuration file not found", <<>>))
         [] data.file = "malformed" ->
              LoadEnds(DocumentationError("Error parsing YAML file", <<"YAMLError">>))
         [] data.file = "list" ->
              LoadEnds(DocumentationError("Configuration must be a YAML dictionary", <<>>))
         [] OTHER -> pc' = "parsed" /\ UNCHANGED <<raised, error>>
    /\ UNCHANGED <<run, given, formatted, args, exit_code, data, config, fs, fs0, handler, existing_dirs, old_dir, remaining,
                   pending, dirs, todo, by, calls, asked, resp>>

\* config = StructureConfig.from_dict(data)
FromDict ==
    /\ pc = "parsed"
    /\ LET built == StructureConfig_from_dict(data)
       IN IF built.exc # <<>>
          THEN LoadEnds(built) /\ UNCHANGED config
          ELSE pc' = "built" /\ config' = built.config /\ UNCHANGED <<raised, error>>
    /\ UNCHANGED <<run, given, formatted, args, exit_code, data, fs, fs0, handler, existing_dirs, old_dir, remaining, pending,
                   dirs, todo, by, calls, asked, resp>>

\* config.validate(); return config
Validate ==
    /\ pc = "built"
    /\ LET outcome == StructureConfig_validate(config)
       IN IF outcome.exc # <<>>
          THEN LoadEnds(outcome)
          ELSE pc' = "loaded" /\ UNCHANGED <<raised, error>>
    /\ UNCHANGED <<run, given, formatted, args, exit_code, data, config, fs, fs0, handler, existing_dirs, old_dir, remaining,
                   pending, dirs, todo, by, calls, asked, resp>>

LoadNext == EditFile \/ ReadFile \/ FromDict \/ Validate
LoadSpec == LoadInit /\ [][LoadNext]_vars

\* ------------------------------------------------------------ create command
\* load_config as one call: what it raises, or the configuration it returns.
load_config(d) ==
    LET read == CASE d.file = "absent" ->
                       DocumentationError("Configuration file not found", <<>>)
                  [] d.file = "malformed" ->
                       DocumentationError("Error parsing YAML file", <<"YAMLError">>)
                  [] d.file = "list" ->
                       DocumentationError("Configuration must be a YAML dictionary", <<>>)
                  [] OTHER -> Passes
        built == StructureConfig_from_dict(d)
        outcome == load_config_except(
                       FirstRaised(<< read,
                                      [exc |-> built.exc, message |-> built.message],
                                      StructureConfig_validate(built.config) >>))
    IN [exc |-> outcome.exc, message |-> outcome.message, config |-> built.config]

\* The configuration as the manager reads it: texts and numbers as they are,
\* every flag by its truth value, mkdocs by whether it is there.
ManagerConfig(c) ==
    [docs_dir |-> c.docs_dir.s,
     numbering |-> [enabled |-> IsTrue(c.numbering.enabled),
                    initial_prefix |-> c.numbering.initial_prefix.n,
                    dir_start_prefix |-> c.numbering.dir_start_prefix.n,
                    prefix_step |-> c.numbering.prefix_step.n,
                    padding_width |-> c.numbering.padding_width.n],
     directories |-> c.directories,
     top_level_files |-> c.top_level_files.items,
     use_markdown_headings |-> IsTrue(c.use_markdown_headings),
     generate_mkdocs |-> IsTrue(c.generate_mkdocs),
     mkdocs |-> c.mkdocs.t # "NoneType"]

\* if args.dry_run ... elif args.yes ... else
SelectHandler(a) ==
    IF a.dry_run THEN "dryrun" ELSE IF a.yes THEN "silent" ELSE "interactive"

\* The except clauses of the command: the code it returns for an exception, -1 for
\* one that none of them catches.
OSErrors == {"OSError", "PermissionError", "FileNotFoundError", "NotADirectoryError",
             "IsADirectoryError", "FileExistsError"}
ExitCode(exc) ==
    CASE exc[1] = "DocumentationError" -> 1
      [] exc[1] = "KeyboardInterrupt" -> 130
      [] exc[1] \in OSErrors -> 1
      [] exc[1] = "ValueError" -> 1
      [] OTHER -> -1

mkdocsYaml == <<"m", "k", "d", "o", "c", "s", ".", "y", "a", "m", "l">>
\* The text yaml.dump writes: the keys of the mapping, docs_dir among them.
MkDocsText(cfg) == <<"d", "o", "c", "s", "_", "d", "i", "r", ":", " ">> \o cfg.docs_dir

\* A generator that writes the file whether or not the configuration has mkdocs.
generate_mkdocs_config_unchecked(cfg, f) ==
    WriteFile(f, project_root \o <<mkdocsYaml>>, MkDocsText(cfg))
generate_mkdocs_config(cfg, f) ==
    IF ~cfg.mkdocs THEN Raise(f, "ValueError")
    ELSE WriteFile(f, project_root \o <<mkdocsYaml>>, MkDocsText(cfg))

\* The configuration files and command lines of the create command: a valid file
\* with one key changed, with and without generate_mkdocs and mkdocs_config.
CliKeys ==
    {"file", "docs_dir", "use_numbered_prefix", "prefix_step", "padding_width",
     "directories", "top_level_files", "use_markdown_headings"}
CliMappings ==
    {[d EXCEPT !.generate_mkdocs = g, !.mkdocs_config = m] :
        d \in UNION {{[BaseData EXCEPT ![key] = v] : v \in Values(key)} : key \in CliKeys},
        g \in {Absent, PyBool(TRUE), PyInt(1)},
        m \in Values("mkdocs_config")}
Arguments == [dry_run : BOOLEAN, yes : BOOLEAN, mkdocs : BOOLEAN]

\* Projects of the command: docs/ missing, docs/ with README.md and index.md,
\* docs/ with an unnumbered guides/, docs as a regular file.
CliSystems ==
    {MkFs(TargetDirs(FALSE, 0, {}), TargetFiles(0, 0)),
     MkFs(TargetDirs(TRUE, 0, {}), TargetFiles(2, 0)),
     MkFs(TargetDirs(TRUE, 2, {}), TargetFiles(1, 2)),
     DocsAsFile({})}

CliInit ==
    /\ data \in CliMappings
    /\ args \in Arguments
    /\ fs \in CliSystems
    /\ fs0 = fs
    /\ exit_code = -1
    /\ given = <<>>
    /\ formatted = <<>>
    /\ run = 1
    /\ pc = "command"
    /\ config = <<>>
    /\ handler = ""
    /\ existing_dirs = <<>>
    /\ old_dir = <<>>
    /\ remaining = {}
    /\ pending = {}
    /\ dirs = <<>>
    /\ todo = <<>>
    /\ by = ""
    /\ calls = <<>>
    /\ asked = <<>>
    /\ resp = NoInput
    /\ error = ""
    /\ raised = <<>>

\* The command ends: it returns the code of the exception, or the exception
\* leaves it.
CliEnds(exc) ==
    /\ exit_code' = ExitCode(exc)
    /\ pc' = IF ExitCode(exc) = -1 THEN "crashed" ELSE "exited"

\* config = load_config(args.config), the handler and the manager.
CliLoadConfig ==
    /\ pc = "command"
    /\ LET loaded == load_config(data)
       IN IF loaded.exc # <<>>
          THEN /\ CliEnds(loaded.exc)
               /\ raised' = loaded.exc
               /\ error' = loaded.message
               /\ UNCHANGED <<config, handler>>
          ELSE /\ config' = ManagerConfig(loaded.config)
               /\ handler' = SelectHandler(args)
               /\ pc' = "start"
               /\ UNCHANGED <<exit_code, raised, error>>
    /\ UNCHANGED <<run, given, formatted, data, args, fs, fs0, existing_dirs, old_dir, remaining, pending, dirs,
                   todo, by, calls, asked, resp>>

\* manager.create_structure has returned or raised: the mkdocs step and the
\* except clauses.
CliReturn ==
    /\ pc \in {"done", "failed"}
    /\ IF pc = "failed"
       THEN CliEnds(raised) /\ UNCHANGED <<fs, error>>
       ELSE IF ~(args.mkdocs \/ config.generate_mkdocs)
       THEN exit_code' = 0 /\ pc' = "exited" /\ UNCHANGED <<fs, error>>
       ELSE LET r == generate_mkdocs_config(config, fs)
            IN /\ fs' = r.fs
               /\ error' = IF r.ok THEN "" ELSE "mkdocs"
               /\ IF r.ok THEN exit_code' = 0 /\ pc' = "exited" ELSE CliEnds(r.exc)
    /\ UNCHANGED <<run, given, formatted, data, args, config, handler, fs0, existing_dirs, old_dir, remaining,
                   pending, dirs, todo, by, calls, asked, resp, raised>>

\* The projects hold no candidate and no numbered variant, so the manager never
\* reaches a migration or chooser step.
CliNext ==
    \/ CliLoadConfig
    \/ HandleDirectoryChange
    \/ EnsureDocsDir
    \/ HandleGroup
    \/ AnswerHandlerRemove
    \/ CreateTopLevelFiles
    \/ CreateDirectories
    \/ CliReturn
CliSpec == CliInit /\ [][CliNext]_vars

\* ------------------------------------------------------------ FilenameFormatter on its own
\* The filenames sanitize is called with: a lower-case and an upper-case letter,
\* a digit, space, dash, dot and a special character.
FormatterChars == {"a", "B", "1", " ", "-", ".", "!"}
Filenames == UNION {[1..n -> FormatterChars] : n \in 0..MaxLen}

\* FilenameFormatter.sanitize as a call: ValueError for the empty filename.
sanitize_call(x) ==
    IF x = <<>> THEN [ok |-> FALSE, value |-> <<>>, exc |-> <<"ValueError">>]
    ELSE [ok |-> TRUE, value |-> sanitize(x), exc |-> <<>>]

FormatterInit ==
    /\ given \in Filenames
    /\ formatted = <<>>
    /\ run = 1
    /\ pc = "start"
    /\ raised = <<>>
    /\ error = ""
    /\ fs = MkFs({}, {})
    /\ fs0 = fs
    /\ config = <<>>
    /\ handler = ""
    /\ existing_dirs = <<>>
    /\ old_dir = <<>>
    /\ remaining = {}
    /\ pending = {}
    /\ dirs = <<>>
    /\ todo = <<>>
    /\ by = ""
    /\ calls = <<>>
    /\ asked = <<>>
    /\ resp = NoInput
    /\ data = <<>>
    /\ args = <<>>
    /\ exit_code = -1

\* formatted = FilenameFormatter.sanitize(given)
Sanitize ==
    /\ pc = "start"
    /\ LET r == sanitize_call(given)
       IN /\ formatted' = r.value
          /\ raised' = r.exc
          /\ pc' = IF r.ok THEN "sanitized" ELSE "raised"
    /\ UNCHANGED <<run, given, error, fs, fs0, config, handler, existing_dirs, old_dir, remaining,
                   pending, dirs, todo, by, calls, asked, resp, data, args, exit_code>>

\* The result is sanitized again: FilenameFormatter.sanitize(formatted)
SanitizeAgain ==
    /\ pc = "sanitized"
    /\ given' = formatted
    /\ LET r == sanitize_call(formatted)
       IN /\ formatted' = r.value
          /\ raised' = r.exc
          /\ pc' = IF r.ok THEN "sanitized_again" ELSE "raised_again"
    /\ UNCHANGED <<run, error, fs, fs0, config, handler, existing_dirs, old_dir, remaining,
                   pending, dirs, todo, by, calls, asked, resp, data, args, exit_code>>

FormatterNext == Sanitize \/ SanitizeAgain
FormatterSpec == FormatterInit /\ [][FormatterNext]_vars

\* ------------------------------------------------------------ properties
FilesUnder(f, d) == {p \in DOMAIN f.files : IsUnder(p, d)}
Target == DocsDir(config)

C2_ContentCheckComesFirst ==
    /\ error = "target_has_files"
        => pc = "failed" /\ fs = fs0 /\ asked = <<>> /\ calls = <<>>
    /\ (pc # "start" /\ existing_dirs # <<>> /\ FilesUnder(fs0, Target) # {})
        => error = "target_has_files"
\* The failure with two candidates to choose from.
C2_Witness == error = "target_has_files" /\ Len(existing_dirs) = 2

\* C3 as stated: handle_directory_change fails with the error whenever the target
\* holds at least one entry of any kind, with or without candidates.
C3_Original ==
    (pc # "start" /\ Iterdir(fs0, Target) # {}) => error = "target_has_files"
\* C3 amended: handle_directory_change fails with the error exactly when at least
\* one candidate was found and the target holds a regular file at some depth.
C3_FailsIffCandidateAndFile ==
    pc # "start"
        => (error = "target_has_files"
                <=> existing_dirs # <<>> /\ FilesUnder(fs0, Target) # {})
\* The failure caused by a file one level down (docs/guides/get-started.md).
C3_Witness ==
    /\ error = "target_has_files"
    /\ Iterdir(fs0, Target) = {<<docs, guides>>}

\* C4 as stated: when the copy loop of _migrate_directory has ended, every regular
\* file under the source has been written by exactly one file_handler.create call
\* on the same relative path under the target.
C4_Original ==
    pc = "ask_remove_source"
        => \A p \in SourceFiles(fs0, old_dir) :
              Cardinality({i \in DOMAIN calls :
                              /\ calls[i].op = "create"
                              /\ calls[i].path = Target \o SubSeq(p, Len(old_dir) + 1, Len(p))})
                  = 1

\* C5 as stated: with DryRunFileHandler injected, the file system is at every
\* point of a create_structure run what it was when the run began.
C5_Original == handler = "dryrun" => fs = fs0

\* C6 as stated: with SilentFileHandler injected (--yes), the run never calls
\* input(): it neither waits at a prompt nor has answered one.
C6_Original ==
    handler = "silent"
        => /\ asked = <<>>
           /\ pc \notin {"ask_select", "ask_migrate", "ask_remove_source",
                          "ask_handler_remove", "ask_keep"}

\* The paths of the initial file system that are gone.
Deleted == AllPaths(fs0) \ AllPaths(fs)
\* The operator answered yes to a question of one of `kinds` that names p or a
\* directory above p.
Consented(p, kinds) ==
    \E j \in DOMAIN asked :
        /\ asked[j].kind \in kinds
        /\ asked[j].said = 1
        /\ \E q \in asked[j].paths : q = p \/ IsUnder(p, q)
\* The operator agreed to a migration, at the confirmation or at the chooser.
MigrationAgreed ==
    \E j \in DOMAIN asked :
        \/ asked[j].kind = "migrate" /\ asked[j].said = 1
        \/ asked[j].kind = "select" /\ asked[j].said > 0
\* p was a directory under the target that held no regular file at any depth.
EmptyInTarget(p) == IsDir(fs0, p) /\ IsUnder(p, Target) /\ FilesUnder(fs0, p) = {}

\* C7 as stated: with InteractiveFileHandler, every path that has been deleted was
\* named (itself or a directory above it) in a yes/no prompt the operator
\* answered yes to.
C7_Original ==
    handler = "interactive"
        => \A p \in Deleted : Consented(p, {"migrate", "remove_source", "handler_remove"})
\* C7 amended: with InteractiveFileHandler, a deleted path was either named (itself
\* or a directory above it) in a removal prompt of the handler answered yes, or it
\* was a directory under the target holding no regular file, pruned once the
\* operator had agreed to a migration; and an answer other than yes to a removal
\* prompt leaves the file system as it is and the run goes on without error.
C7_DeletionsAreConsentedOrPruned ==
    /\ [](handler = "interactive"
            => \A p \in Deleted :
                  \/ Consented(p, {"handler_remove"})
                  \/ MigrationAgreed /\ EmptyInTarget(p))
    /\ [][(/\ handler = "interactive"
           /\ pc \in {"ask_remove_source", "ask_handler_remove"}
           /\ ~SaysYes(resp'))
          => /\ fs' = fs
             /\ error' = error
             /\ pc' \in {"ask_handler_remove", "ensure", "cleanup"}]_vars
\* The source was removed on a yes, an empty docs/guides was pruned, and the
\* removal of the migrated docs/policies has just been declined.
C7_Witness ==
    /\ handler = "interactive"
    /\ <<old>> \in Deleted
    /\ <<docs, guides>> \in Deleted
    /\ asked # <<>>
    /\ asked[Len(asked)] = [kind |-> "handler_remove", paths |-> {<<docs, policies>>},
                            said |-> 0]
    /\ IsDir(fs, <<docs, policies>>)
    /\ pc = "cleanup"

\* C8 as stated: with InteractiveFileHandler, a create call on a path that exists
\* comes with an input() naming that path.
C8_Original ==
    handler = "interactive"
        => \A i \in DOMAIN calls :
              (calls[i].op = "create" /\ calls[i].existed)
                  => \E j \in DOMAIN asked : calls[i].path \in asked[j].paths

\* The remove_dir calls made on a path.
RemoveDirCalls(path) ==
    {i \in DOMAIN calls : calls[i].op = "remove_dir" /\ calls[i].path = path}
\* The removal loop that follows a chooser answer is still waiting at a prompt.
KeepLoopRunning == pc = "ask_handler_remove" /\ by = "multi"

\* C9: in _cleanup_mismatched_content, after the operator entered a valid 1-based
\* index k for a group of two or more directories, remove_dir is never called for
\* the k-th member in sorted order, at most once for every other member, and,
\* once the loop has ended without error, exactly once for every other member.
C9_KeepRemovesExactlyTheOthers ==
    \A j \in DOMAIN asked :
        (asked[j].kind = "keep" /\ asked[j].said > 0)
            => LET kept == SortedPaths(asked[j].paths)[asked[j].said]
               IN /\ Cardinality(asked[j].paths) >= 2
                  /\ RemoveDirCalls(kept) = {}
                  /\ \A m \in asked[j].paths \ {kept} :
                        /\ Cardinality(RemoveDirCalls(m)) <= 1
                        /\ (~KeepLoopRunning /\ error = "")
                              => /\ Cardinality(RemoveDirCalls(m)) = 1
                                 /\ \A i \in RemoveDirCalls(m) : calls[i].by = "multi"
\* Three versions, the second (020_guides) kept, the other two removed.
C9_Witness ==
    /\ handler = "silent"
    /\ pc = "cleanup"
    /\ asked # <<>>
    /\ asked[Len(asked)] =
          [kind |-> "keep", said |-> 2,
           paths |-> {<<docs, guides>>, <<docs, VariantName(1)>>, <<docs, VariantName(2)>>}]
    /\ IsDir(fs, <<docs, VariantName(2)>>)
    /\ ~Exists(fs, <<docs, guides>>)
    /\ ~Exists(fs, <<docs, VariantName(1)>>)
    /\ Len(calls) = 2

\* C10: in _cleanup_mismatched_content, at the chooser of a group of two or more
\* directories, an answer that is not a valid index ('n', out of range, not a
\* number, KeyboardInterrupt, EOFError) makes no file_handler call and changes
\* nothing on disk; no error is raised and the loop goes on with the groups that
\* were left, after which the run creates the top-level files.
C10_SkipRemovesNothing ==
    [][(pc = "ask_keep" /\ ~Picks(resp', Len(dirs)))
       => /\ calls' = calls
          /\ fs' = fs
          /\ error' = error
          /\ pending' = pending
          /\ pc' = "cleanup"]_vars
\* An out-of-range index at a chooser over two versions, both still there.
C10_Witness ==
    /\ pc = "cleanup"
    /\ resp = Txt(<<"3">>)
    /\ Len(dirs) = 2
    /\ \A d \in Range(dirs) : IsDir(fs, d)
    /\ calls = <<>>

\* A name that begins with one or more digits followed by an underscore.
PrefixedName(name) ==
    \E k \in 1..(Len(name) - 1) :
        /\ \A i \in 1..k : name[i] \in DigitChars
        /\ name[k + 1] = "_"
\* The step that takes a group with exactly one member out of dir_groups.
SingleGroupStep == pc = "cleanup" /\ pending' # pending /\ Len(dirs') = 1
\* That member's format disagrees with the numbering flag.
SingleDisagrees ==
    config.numbering.enabled <=> ~PrefixedName(Name(dirs'[1]))

\* C11 as stated: for a group with exactly one member, remove_dir is called exactly
\* when the member's format disagrees with the numbering flag, and the operator is
\* not asked about the removal.
C11_Original ==
    [][SingleGroupStep
       => /\ (calls' # calls <=> SingleDisagrees)
          /\ asked' = asked
          /\ pc' # "ask_handler_remove"]_vars
\* C11 amended: for a group with exactly one member, remove_dir is called (once, on
\* that member) exactly when the member's format disagrees with the numbering
\* flag; _cleanup_mismatched_content asks nothing itself, but the handler decides
\* what the call does: InteractiveFileHandler asks its removal question before
\* anything is removed, SilentFileHandler removes the tree at once, and
\* DryRunFileHandler removes nothing.
C11_SingleRemovedThroughHandler ==
    [][SingleGroupStep
       => /\ (calls' # calls <=> SingleDisagrees)
          /\ asked' = asked
          /\ calls' # calls
                => calls' = Append(calls, Call("remove_dir", dirs'[1], <<>>, "single", TRUE))
          /\ calls' = calls => fs' = fs /\ pc' = "cleanup"
          /\ (calls' # calls /\ handler = "interactive")
                => fs' = fs /\ pc' = "ask_handler_remove" /\ Head(todo') = dirs'[1]
          /\ (calls' # calls /\ handler = "silent")
                => /\ pc' = "cleanup"
                   /\ AllPaths(fs') =
                        {p \in AllPaths(fs) : p # dirs'[1] /\ ~IsUnder(p, dirs'[1])}
          /\ (calls' # calls /\ handler = "dryrun")
                => fs' = fs /\ pc' = "cleanup"]_vars
\* InteractiveFileHandler asking about the lone 010_guides while numbering is off.
C11_Witness ==
    /\ pc = "ask_handler_remove"
    /\ by = "single"
    /\ handler = "interactive"
    /\ ~config.numbering.enabled
    /\ todo = << <<docs, VariantName(1)>> >>

\* Where a path below the migration source lands below the target.
Landing(p) == Target \o SubSeq(p, Len(old_dir) + 1, Len(p))
\* handle_directory_change has just returned after the operator answered the
\* source-removal question of _migrate_directory with `said` (1 yes, 0 anything else).
MigrateReturned(said) ==
    /\ pc = "ensure"
    /\ asked # <<>>
    /\ asked[Len(asked)].kind = "remove_source"
    /\ asked[Len(asked)].said = said

\* C12: when _migrate_directory returns after the operator agreed to migrate and
\* did not agree to remove the source, every regular file of the source has a copy
\* with the same content at the same relative path under the target, everything
\* under the source is as it was, and remove_dir has not been called.
C12_CopyKeepsSource ==
    MigrateReturned(0)
        => /\ \A p \in SourceFiles(fs0, old_dir) :
                 IsFile(fs, Landing(p)) /\ fs.files[Landing(p)] = fs0.files[p]
           /\ IsDir(fs, old_dir)
           /\ \A p \in Rglob(fs0, old_dir) :
                 /\ Exists(fs, p)
                 /\ IsDir(fs, p) = IsDir(fs0, p)
                 /\ IsFile(fs0, p) => fs.files[p] = fs0.files[p]
           /\ Rglob(fs, old_dir) = Rglob(fs0, old_dir)
           /\ \A i \in DOMAIN calls : calls[i].op # "remove_dir"
\* old/ migrated into docs/ with both its files, the source kept on an empty answer.
C12_Witness ==
    /\ MigrateReturned(0)
    /\ resp = Txt(<<>>)
    /\ old_dir = <<old>>
    /\ Cardinality(SourceFiles(fs0, old_dir)) = 2
    /\ IsFile(fs, <<docs, policies, <<"p">> \o md>>)
    /\ IsFile(fs, <<old, policies, <<"p">> \o md>>)

\* The remove_dir calls _migrate_directory has made.
SourceRemovalCalls == {i \in DOMAIN calls : calls[i].op = "remove_dir" /\ calls[i].by = "migrate"}
\* The answers given so far to the source-removal question.
SourceRemovalAnswers == {j \in DOMAIN asked : asked[j].kind = "remove_source"}
\* handle_directory_change is over, by return or by exception.
MigrationOver == pc \notin {"start", "ask_select", "ask_migrate", "copy", "ask_remove_source"}

\* C13: _migrate_directory calls file_handler.remove_dir at most once, on the
\* source, and exactly when the operator answered 'y' to its source-removal
\* question; the call is made at that answer, when every regular file of the source
\* has its copy under the target; and when the run failed before the question was
\* asked, it is never asked, no such call is made and the source is as it was.
C13_SourceRemovedOnlyOnYes ==
    /\ [](/\ Cardinality(SourceRemovalCalls) <= 1
          /\ Cardinality(SourceRemovalAnswers) <= 1
          /\ \A i \in SourceRemovalCalls : calls[i].path = old_dir
          /\ MigrationOver
                => (SourceRemovalCalls # {}
                        <=> \E j \in SourceRemovalAnswers : asked[j].said = 1)
          /\ (pc = "failed" /\ SourceRemovalAnswers = {})
                => /\ SourceRemovalCalls = {}
                   /\ old_dir # <<>> => Rglob(fs, old_dir) = Rglob(fs0, old_dir))
    /\ [][(SourceRemovalCalls' # SourceRemovalCalls)
            => /\ pc = "ask_remove_source"
               /\ SaysYes(resp')
               /\ remaining = {}
               /\ \A p \in SourceFiles(fs0, old_dir) :
                     IsFile(fs, Landing(p)) /\ fs.files[Landing(p)] = fs0.files[p]]_vars
    /\ [][pc = "failed" => pc' = "failed" /\ asked' = asked /\ calls' = calls]_vars
\* SilentFileHandler has removed old/ after a 'y', both copies being in docs/.
C13_Witness ==
    /\ MigrateReturned(1)
    /\ handler = "silent"
    /\ old_dir = <<old>>
    /\ ~Exists(fs, <<old>>)
    /\ Cardinality(SourceRemovalCalls) = 1
    /\ Cardinality(FilesUnder(fs, Target)) = 2

\* A step that removes a directory under the target and is not the work of a
\* remove_dir call, made in this step or waiting for its answer.
Prunes ==
    /\ calls' = calls
    /\ pc # "ask_handler_remove"
    /\ \E d \in fs.dirs : IsUnder(d, Target) /\ ~IsDir(fs', d)
\* No directory under the target is empty.
NoEmptyDirInTarget == \A d \in fs.dirs : IsUnder(d, Target) => Iterdir(fs, d) # {}

\* C14 as stated: empty directories under the target are pruned only once the copy
\* loop of the migration has ended, and when the copy has ended no directory under
\* the target is empty and the target is there.
C14_Original ==
    /\ [][Prunes => pc = "ask_remove_source"]_vars
    /\ [](pc = "ask_remove_source" => NoEmptyDirInTarget /\ IsDir(fs, Target))
\* C14 amended: pruning is the first step of a migration: it happens at the
\* operator's agreement to migrate, before the target is created and before any
\* file is copied, and removes every directory under the target (none holds a
\* regular file), nested ones included, but never the target; nothing is pruned
\* later, and when the copy has ended no directory under the target is empty.
C14_PruneComesFirst ==
    /\ [][Prunes
            => /\ \/ pc = "ask_migrate" /\ SaysYes(resp')
                  \/ pc = "ask_select" /\ Picks(resp', Len(existing_dirs))
               /\ Rglob(fs', Target) = {}
               /\ IsDir(fs', Target)
               /\ DOMAIN fs'.files = DOMAIN fs.files
               /\ pc' \in {"copy", "ask_remove_source"}]_vars
    /\ [](pc = "ask_remove_source" => NoEmptyDirInTarget /\ IsDir(fs, Target))
\* The copy has ended in a target that began with docs/guides/img and 010_guides.
C14_Witness ==
    /\ pc = "ask_remove_source"
    /\ IsDir(fs0, <<docs, guides, img>>)
    /\ IsDir(fs0, <<docs, VariantName(1)>>)
    /\ ~Exists(fs, <<docs, guides>>)
    /\ ~Exists(fs, <<docs, VariantName(1)>>)
    /\ old_dir = <<old>>
    /\ FilesUnder(fs, Target) # {}

\* The OSError subclasses the file operations raise.
RawErrors ==
    {"OSError", "FileExistsError", "FileNotFoundError", "PermissionError",
     "IsADirectoryError", "NotADirectoryError"}
\* Every file and directory f has under d is in g, the files with the same content.
Keeps(f, g, d) ==
    /\ {x \in f.dirs : x = d \/ IsUnder(x, d)} \subseteq g.dirs
    /\ \A p \in FilesUnder(f, d) : IsFile(g, p) /\ g.files[p] = f.files[p]

\* C15: a failure inside _migrate_directory (creating the target, reading or
\* writing a file, removing the source) leaves handle_directory_change as a
\* FileSystemError raised from the original exception, never as that exception
\* itself, and the failing step removes nothing from the target: what was copied
\* before stays.
C15_MigrationFailureIsWrapped ==
    /\ [](error = "migration"
            => /\ pc = "failed"
               /\ Len(raised) >= 3
               /\ raised[2] = "FileSystemError"
               /\ raised[Len(raised)] \in RawErrors)
    /\ [][error' = "migration" /\ error = "" => Keeps(fs, fs', Target)]_vars
\* old/notes.txt could not be read after old/policies/p.md had been copied.
C15_Witness ==
    /\ error = "migration"
    /\ raised = <<"DocumentationError", "FileSystemError", "PermissionError">>
    /\ IsFile(fs, <<docs, policies, <<"p">> \o md>>)
    /\ ~IsFile(fs, <<docs, notesTxt[2]>>)
    /\ IsFile(fs, <<old, policies, <<"p">> \o md>>)

\* C16: create_structure fails in one way only: whatever step raised (the migration,
\* the pruning before it, docs_dir.mkdir, a remove_dir of the reconciliation, a
\* create or a mkdir of the materialization), the exception that leaves is a
\* DocumentationError raised from the original one, and the run has stopped there.
C16_OneErrorType ==
    /\ pc = "failed" <=> raised # <<>>
    /\ pc = "failed" <=> error # ""
    /\ pc = "failed"
          => /\ Len(raised) >= 2
             /\ raised[1] = "DocumentationError"
             /\ \A i \in 2..Len(raised) : raised[i] \in RawErrors \cup {"FileSystemError"}
\* A PermissionError of the pruning, which no FileSystemError wraps, left as a
\* DocumentationError.
C16_Witness ==
    /\ pc = "failed"
    /\ error = "prune"
    /\ raised = <<"DocumentationError", "PermissionError">>

\* The phase create_structure is in: 1 handle_directory_change, 2 docs_dir.mkdir,
\* 3 _cleanup_mismatched_content, 5 _create_directories (4, _create_top_level_files,
\* is a single step from 3 to 5), 6 returned.
PhaseNow ==
    CASE pc \in {"start", "ask_select", "ask_migrate", "copy", "ask_remove_source"} -> 1
      [] pc = "ask_handler_remove" -> IF by = "migrate" THEN 1 ELSE 3
      [] pc = "ensure" -> 2
      [] pc \in {"cleanup", "ask_keep"} -> 3
      [] pc = "directories" -> 5
      [] pc = "done" -> 6
      [] OTHER -> 0
\* The phase that makes a file_handler call.
PhaseOfCall(c) ==
    CASE c.by = "migrate" -> 1
      [] c.by \in {"multi", "single"} -> 3
      [] c.by \in {"readme", "top_level"} -> 4
      [] OTHER -> 5
\* The phase in which the run failed.
PhaseOfError ==
    CASE error \in {"find", "target_has_files", "prune", "migration"} -> 1
      [] error = "mkdir" -> 2
      [] error = "remove_dir" -> 3
      [] OTHER -> 5

\* C17: create_structure goes through its phases in order, one after the other
\* and never back: migration handling, docs_dir.mkdir, reconciliation, top-level
\* files, directories; the file_handler calls are made in that order, so every
\* remove_dir precedes every create; and once a phase has failed the run is over
\* and no call of a later phase has been made.
C17_PhasesInOrder ==
    /\ [][\/ pc' = "failed"
          \/ PhaseNow' = PhaseNow
          \/ PhaseNow' = PhaseNow + 1
          \/ PhaseNow = 3 /\ PhaseNow' = 5 /\ pending = {}]_vars
    /\ [][pc = "failed" => pc' = "failed" /\ calls' = calls /\ fs' = fs]_vars
    /\ [](/\ \A i, j \in DOMAIN calls :
                i < j => PhaseOfCall(calls[i]) <= PhaseOfCall(calls[j])
          /\ \A i, j \in DOMAIN calls :
                i < j => ~(calls[i].op = "create" /\ calls[j].op = "remove_dir")
          /\ \A i \in DOMAIN calls :
                /\ PhaseOfCall(calls[i]) <= (IF PhaseNow = 5 THEN 4 ELSE IF PhaseNow = 0 THEN 5
                                             ELSE PhaseNow)
                /\ pc = "failed" => PhaseOfCall(calls[i]) <= PhaseOfError
          /\ PhaseNow >= 3 => IsDir(fs, Target))
\* A complete run that removed the source, removed the migrated docs/policies as
\* mismatched, and created the top-level and the directory files.
C17_Witness ==
    /\ pc = "done"
    /\ \E i \in DOMAIN calls : calls[i].by = "migrate"
    /\ \E i \in DOMAIN calls : calls[i].by = "single" /\ calls[i].path = <<docs, policies>>
    /\ \E i \in DOMAIN calls : calls[i].by = "top_level"
    /\ \E i \in DOMAIN calls : calls[i].by = "directories"

\* The migration proper has begun: something was pruned, created or copied, or it
\* failed on the way.
MigrationStarted ==
    \/ pc \in {"copy", "ask_remove_source"}
    \/ SourceRemovalAnswers # {}
    \/ error \in {"prune", "migration"}
\* The questions of handle_directory_change itself.
MigratorQuestions == {"select", "migrate", "remove_source"}

WellKnownNames ==
    {docs, documentation, doc,
     <<"n", "u", "m", "b", "e", "r", "e", "d", "_", "d", "o", "c", "s">>}
\* C19 as stated: find_isms_directories returns exactly the directories directly
\* under project_root that carry one of the well-known names and are not new_dir,
\* whatever they contain.
C19_Original ==
    pc = "found"
        => Range(existing_dirs)
              = {<<n>> : n \in {m \in WellKnownNames : IsDir(fs, <<m>>) /\ <<m>> # Target}}

\* policies, procedures or records, with or without a three-digit prefix.
NamedLikeIsms(n) ==
    \/ n \in IsmsBases
    \/ /\ Len(n) > 4
       /\ \A i \in 1..3 : n[i] \in DigitChars
       /\ n[4] = "_"
       /\ SubSeq(n, 5, Len(n)) \in IsmsBases
\* Somewhere below d there is a directory named like that, other than d itself,
\* with an entry whose name ends in .md.
LooksLikeIsms(f, d) ==
    \E y \in AllPaths(f) :
        /\ Len(y) >= Len(d) + 2
        /\ LET rel == [i \in 1..(Len(y) - Len(d)) |-> y[Len(d) + i]]
           IN /\ \A i \in DOMAIN d : y[i] = d[i]
              /\ NamedLikeIsms(rel[Len(rel) - 1])
              /\ EndsWith(rel[Len(rel)], md)

\* C19: find_isms_directories returns a path if and only if it is a directory
\* directly under project_root or directly under project_root/docs, is not new_dir,
\* and looks like an ISMS tree by its contents; its name plays no part. The call
\* raises instead of returning exactly when project_root/docs is not a directory.
C19_CandidatesByContent ==
    /\ pc = "found"
          => \A d \in AllPaths(fs) \cup Range(existing_dirs) \cup {Target} :
                d \in Range(existing_dirs)
                    <=> /\ IsDir(fs, d)
                        /\ Len(d) >= 1
                        /\ Parent(d) \in {project_root, project_root \o <<docs>>}
                        /\ d # Target
                        /\ LooksLikeIsms(fs, d)
    /\ pc = "failed" <=> (pc # "start" /\ IsFile(fs, project_root \o <<docs>>))
\* An empty doc/ and a policies/ with p.md right in it are left out; docs-old and
\* docs/isms, which hold numbered records and procedures, are returned.
C19_Witness ==
    /\ pc = "found"
    /\ Target = <<docs>>
    /\ IsDir(fs, <<doc>>) /\ <<doc>> \notin Range(existing_dirs)
    /\ IsFile(fs, <<policies, pMd>>) /\ <<policies>> \notin Range(existing_dirs)
    /\ existing_dirs = << <<docs, isms>>, <<docsOld>> >>

\* C20: the list find_isms_directories returns is in ascending order of paths
\* (pathlib's order, part by part), holds no path twice and never holds new_dir.
C20_SortedDistinctWithoutTarget ==
    pc = "found"
        => /\ \A i, j \in DOMAIN existing_dirs :
                 i < j => PathLess(existing_dirs[i], existing_dirs[j])
           /\ Cardinality(Range(existing_dirs)) = Len(existing_dirs)
           /\ Target \notin Range(existing_dirs)
\* new_dir is doc, which holds policies/p.md: docs, docs/isms and docs-old are
\* returned in that order, doc is not.
C20_Witness ==
    /\ pc = "found"
    /\ Target = <<doc>>
    /\ IsFile(fs, <<doc, policies, pMd>>)
    /\ existing_dirs = << <<docs>>, <<docs, isms>>, <<docsOld>> >>

\* A file_handler method called on its own has ended.
HandlerDone == pc \in {"returned", "raised"}
Removals == {"remove", "remove_dir"}

\* C21: InteractiveFileHandler.remove and remove_dir on a path that exists: unless
\* the answer to the one question asked is 'y' (in either case, spaces around it),
\* and so too when input() raised KeyboardInterrupt or EOFError, the call returns
\* and the file system is as it was.
C21_DeclinedRemovalKeepsTarget ==
    (/\ HandlerDone
     /\ handler = "interactive"
     /\ calls[1].op \in Removals
     /\ calls[1].existed
     /\ ~SaysYes(resp))
        => pc = "returned" /\ fs = fs0 /\ raised = <<>> /\ Len(asked) = 1
\* remove_dir of docs/guides, which holds get-started.md, interrupted at the prompt.
C21_Witness ==
    /\ pc = "returned"
    /\ handler = "interactive"
    /\ calls[1].op = "remove_dir" /\ calls[1].path = <<docs, guides>>
    /\ resp = KeyboardInterrupt
    /\ IsFile(fs, <<docs, guides, getStarted>>)

\* C22: remove and remove_dir of a path that does not exist, with any of the three
\* handlers: the call returns, the file system is as it was, nothing was asked and
\* nothing was logged.
C22_MissingPathIsNoOp ==
    (HandlerDone /\ calls[1].op \in Removals /\ ~Exists(fs0, calls[1].path))
        => pc = "returned" /\ fs = fs0 /\ asked = <<>> /\ raised = <<>> /\ HandlerLog = {}
\* The dry-run handler asked to remove docs/draft/index.md where docs/draft is missing.
C22_Witness ==
    /\ pc = "returned"
    /\ handler = "dryrun"
    /\ calls[1].op = "remove" /\ calls[1].path = <<docs, draft, indexMd>>
    /\ ~Exists(fs, <<docs, draft>>)

\* C23: whatever DryRunFileHandler is asked to do, the call returns and the file
\* system is as it was; it logs what it would have done: the creation of any path,
\* the removal of a path that exists.
C23_DryRunChangesNothing ==
    (HandlerDone /\ handler = "dryrun")
        => /\ pc = "returned" /\ fs = fs0 /\ asked = <<>>
           /\ calls[1].op = "create"
                => Line("INFO", "Would create file", calls[1].path) \in HandlerLog
           /\ (calls[1].op = "remove" /\ calls[1].existed)
                => HandlerLog = {Line("INFO", "Would remove file", calls[1].path)}
           /\ (calls[1].op = "remove_dir" /\ calls[1].existed)
                => Line("INFO", "Would remove directory", calls[1].path) \in HandlerLog
\* create of docs/draft/index.md with content: neither docs/draft nor the file is there.
C23_Witness ==
    /\ pc = "returned"
    /\ handler = "dryrun"
    /\ calls[1] = Call("create", <<docs, draft, indexMd>>, <<"#", " ", "X">>, "caller", FALSE)
    /\ ~Exists(fs, <<docs, draft>>)
    /\ ~Exists(fs, <<docs, draft, indexMd>>)

\* C24: a call of the interactive or the silent handler that raises raises a
\* FileSystemError whose message names the path of the call, raised from the
\* OSError of mkdir, write_text, unlink or rmtree; after a removal that raised the
\* path still exists; and a call that returns has done its work, so no failure
\* passes unnoticed.
C24_HandlerFailureIsFileSystemError ==
    (HandlerDone /\ handler \in {"interactive", "silent"})
        => /\ pc = "raised"
                => /\ Len(raised) = 2
                   /\ raised[1] = "FileSystemError"
                   /\ raised[2] \in RawErrors
                   /\ HandlerMessage(calls[1].op, calls[1].path, [exc |-> raised])
                        \in {[text |-> t, path |-> calls[1].path, cause |-> <<raised[2]>>] :
                                t \in {"Error creating file", "Error removing file",
                                        "Error removing directory"}}
                   /\ calls[1].op \in Removals => Exists(fs, calls[1].path)
           /\ (pc = "returned" /\ calls[1].op = "create")
                => /\ IsFile(fs, calls[1].path)
                   /\ fs.files[calls[1].path] = calls[1].content
           /\ (/\ pc = "returned" /\ calls[1].op \in Removals
               /\ handler = "silent" \/ SaysYes(resp))
                => ~Exists(fs, calls[1].path)
\* rmtree of docs/guides in a docs/ that cannot be written: the file in it is
\* gone, the directory is still there.
C24_Witness ==
    /\ pc = "raised"
    /\ handler = "silent"
    /\ calls[1].op = "remove_dir" /\ calls[1].path = <<docs, guides>>
    /\ raised = <<"FileSystemError", "PermissionError">>
    /\ IsFile(fs0, <<docs, guides, getStarted>>)
    /\ ~IsFile(fs, <<docs, guides, getStarted>>)
    /\ IsDir(fs, <<docs, guides>>)

\* C25: a KeyboardInterrupt or EOFError raised by input() at any of the five
\* questions is caught where it is raised and read as a refusal: the step changes
\* nothing in the file system, create_structure does not fail in it, and neither
\* exception is ever part of what leaves create_structure.
C25_InterruptsAreDeclines ==
    /\ [](\A i \in DOMAIN raised : raised[i] \notin {"KeyboardInterrupt", "EOFError"})
    /\ [][Raises(resp')
            => /\ pc' # "failed" /\ error' = "" /\ raised' = <<>>
               /\ fs' = fs
               /\ Len(asked') = Len(asked) + 1
               /\ asked'[Len(asked')].kind
                    \in {"select", "migrate", "remove_source", "keep", "handler_remove"}
               /\ asked'[Len(asked')].kind \in {"select", "migrate"} => ~MigrationStarted']_vars
\* End of input at the handler's confirmation for the migrated docs/policies,
\* after an agreed migration and a refused removal of the source: the run goes on.
C25_Witness ==
    /\ resp = EOFError
    /\ pc \notin {"failed", "done"}
    /\ Len(asked) >= 3
    /\ asked[Len(asked)].kind = "handler_remove"
    /\ asked[Len(asked)].paths = {<<docs, policies>>}
    /\ \E i \in DOMAIN asked : asked[i].kind = "remove_source" /\ asked[i].said = 0
    /\ IsDir(fs, <<docs, policies>>)

\* The create calls made for configured files, and the paths of a list of calls.
IsConfiguredCreate(c) == c.op = "create" /\ c.by # "readme"
IsCreate(c) == c.op = "create"
PathsOf(cs) == [i \in DOMAIN cs |-> cs[i].path]
ReadmePath == Target \o <<README>>
\* The configured files in configuration order, top-level files first, each with
\* the 1-based position of its directory (0 for a top-level file) and its own
\* 1-based position in its list.
RECURSIVE DirectoryEntries(_, _)
DirectoryEntries(cfg, k) ==
    IF k > Len(cfg.directories) THEN <<>>
    ELSE [j \in DOMAIN cfg.directories[k].files |->
             [dir |-> k, pos |-> j, name |-> cfg.directories[k].files[j]]]
         \o DirectoryEntries(cfg, k + 1)
ConfiguredEntries(cfg) ==
    [i \in DOMAIN cfg.top_level_files |-> [dir |-> 0, pos |-> i, name |-> cfg.top_level_files[i]]]
        \o DirectoryEntries(cfg, 1)
\* The path _create_file is to be called with for an entry.
EntryPath(cfg, e) ==
    (IF e.dir = 0 THEN Target
     ELSE get_directory_path(cfg, Target, cfg.directories[e.dir].name, e.dir))
        \o <<FinalName(cfg, e.name, e.pos)>>
ConfiguredPaths(cfg) ==
    [i \in DOMAIN ConfiguredEntries(cfg) |-> EntryPath(cfg, ConfiguredEntries(cfg)[i])]

\* C26 as stated: the create calls of a complete run are exactly those for the
\* configured files, one each, in configuration order, and no other.
C26_Original ==
    pc = "done" => PathsOf(SelectSeq(calls, IsCreate)) = ConfiguredPaths(config)

\* C26: the create calls of a complete run are, in this order: one for
\* docs_dir/README.md if it did not exist, then one for each top-level file i at
\* docs_dir/<final name i>, then one for each file j of each directory k at
\* docs_dir/<final directory name k>/<final name j>, j starting at 1 in every
\* directory; there is no other create call.
C26_CreatesInConfigurationOrder ==
    pc = "done"
        => PathsOf(SelectSeq(calls, IsCreate))
              = (IF Exists(fs0, ReadmePath) THEN <<>> ELSE <<ReadmePath>>)
                    \o ConfiguredPaths(config)
\* README.md, two top-level files and two files in each of two directories.
C26_Witness ==
    /\ pc = "done"
    /\ config.numbering.enabled
    /\ Len(config.directories) = 2
    /\ Len(calls) = 7
    /\ calls[1].path = ReadmePath
    /\ calls[7].by = "directories"
    /\ Len(calls[7].path) = 3

\* C27: once _create_top_level_files has run, create has been called for
\* docs_dir/README.md exactly when that path did not exist: once, first, with no
\* content and no prefix; and not at all when it existed; whatever the numbering
\* policy and the configured top-level files.
C27_ReadmeWhenMissing ==
    pc \in {"directories", "done"}
        => LET readme_calls == {i \in DOMAIN calls : calls[i].path = ReadmePath}
           IN IF Exists(fs0, ReadmePath) THEN readme_calls = {}
              ELSE /\ readme_calls = {1}
                   /\ calls[1] = Call("create", ReadmePath, <<>>, "readme", FALSE)
\* Numbering on, no top-level file configured: the silent handler wrote an empty
\* docs/README.md.
C27_Witness ==
    /\ pc = "done"
    /\ handler = "silent"
    /\ config.numbering.enabled
    /\ config.top_level_files = <<>>
    /\ ~Exists(fs0, ReadmePath)
    /\ calls[1].path = <<docs, README>>
    /\ IsFile(fs, <<docs, README>>) /\ fs.files[<<docs, README>>] = <<>>

\* The heading line for a configured name.
HeadingLine(name) == <<"#", " ">> \o to_title(sanitize(name)) \o <<"\n">>
\* C28: the content passed to create for the n-th configured file is the line
\* '# <title of the sanitized name>' when config.use_markdown_headings is true as
\* create_structure runs and the configured name ends in '.md', and is empty
\* otherwise; the writing handlers put that content in the file. The flag counts
\* as it is when the files are created, not as it was when the manager was built.
C28_HeadingIffFlagAndMarkdown ==
    pc = "done"
        => LET made == SelectSeq(calls, IsConfiguredCreate)
               entries == ConfiguredEntries(config)
           IN /\ Len(made) = Len(entries)
              /\ \A n \in DOMAIN made :
                    /\ made[n].content
                          = IF config.use_markdown_headings /\ EndsWith(entries[n].name, md)
                            THEN HeadingLine(entries[n].name) ELSE <<>>
                    /\ made[n].content # <<>>
                          <=> (config.use_markdown_headings /\ EndsWith(entries[n].name, md))
                    /\ handler # "dryrun" => fs.files[made[n].path] = made[n].content
\* The flag was true when the manager was built and false when create_structure
\* ran: "Get Started.md" was created empty.
C28_Witness ==
    /\ pc = "done"
    /\ ~config.use_markdown_headings
    /\ handler = "interactive"
    /\ \E i \in DOMAIN calls :
          /\ calls[i].path = <<docs, guides, getStarted>>
          /\ calls[i].content = <<>>
    /\ fs.files[<<docs, guides, getStarted>>] = <<>>

\* The decimal digits of n, with zeros in front up to `width` digits.
DigitCount(n) == CHOOSE L \in 1..9 : n < 10 ^ L /\ (L = 1 \/ n >= 10 ^ (L - 1))
NumberText(n, width) ==
    LET len == IF DigitCount(n) > width THEN DigitCount(n) ELSE width
    IN [i \in 1..len |-> Digits[((n \div (10 ^ (len - i))) % 10) + 1]]
\* The name the policy gives to `name` at position i when each position adds `step`.
NameAt(cfg, i, step, name) ==
    IF cfg.numbering.enabled
    THEN NumberText(i * step, cfg.numbering.padding_width) \o <<"_">> \o name
    ELSE name
\* C29: after a complete run the paths create was called with for configured
\* files are exactly: for top-level file i, docs_dir/<P(i * prefix_step)>_<sanitized
\* name>; for file j of directory k, docs_dir/<P(k * dir_start_prefix)>_<directory
\* name>/<P(j * prefix_step)>_<sanitized name>, where P pads with zeros to
\* padding_width digits and never cuts a longer number; with numbering disabled
\* the prefixes and underscores are absent. The directories of those names exist.
C29_NamingPolicy ==
    pc = "done"
        => LET num == config.numbering
               DirName(k) == NameAt(config, k, num.dir_start_prefix, config.directories[k].name)
               FileName(j, name) == NameAt(config, j, num.prefix_step, sanitize(name))
           IN /\ {c.path : c \in {d \in Range(calls) : IsConfiguredCreate(d)}}
                    = {Target \o <<FileName(i, config.top_level_files[i])>> :
                            i \in DOMAIN config.top_level_files}
                      \cup UNION {{Target \o <<DirName(k),
                                                FileName(j, config.directories[k].files[j])>> :
                                        j \in DOMAIN config.directories[k].files} :
                                     k \in DOMAIN config.directories}
              /\ \A k \in DOMAIN config.directories : IsDir(fs, Target \o <<DirName(k)>>)
\* dir_start_prefix 7, prefix_step 500, padding_width 3: the second file of the
\* second directory is 014_reference/1000_api.MD.
C29_Witness ==
    /\ pc = "done"
    /\ config.numbering.enabled /\ config.numbering.prefix_step = 500
    /\ IsDir(fs, <<docs, <<"0", "1", "4", "_">> \o reference>>)
    /\ \E i \in DOMAIN calls :
          calls[i].path = <<docs, <<"0", "1", "4", "_">> \o reference,
                            <<"1", "0", "0", "0", "_", "a", "p", "i", ".", "M", "D">> >>

\* The names a mapping or a configuration gives: directories, their files and
\* the top-level files.
BadName(s) == s = <<>> \/ HasSeparator(s)
NamesIn(directories, top_level_files) ==
    {directories[i].name : i \in DOMAIN directories}
    \cup UNION {Range(directories[i].files) : i \in DOMAIN directories}
    \cup Range(top_level_files)
FlagKeys == {"use_numbered_prefix", "use_markdown_headings", "generate_mkdocs"}
NumericKeys == {"initial_prefix", "dir_start_prefix", "prefix_step", "padding_width"}
\* What the mapping must not have.
BreaksConstraint(d) ==
    \/ d.directories.t = "dict" /\ d.directories.items = <<>>
    \/ docs_dir_of(d).t = "str" /\ BadName(docs_dir_of(d).s)
    \/ \E name \in NamesIn(d.directories.items, d.top_level_files.items) : BadName(name)
    \/ \E k \in NumericKeys : d[k].t = "int" /\ d[k].n < 1
    \/ \E k \in FlagKeys : d[k].t \notin {"bool", "absent"}
\* What a returned configuration has.
MeetsConstraints(c) ==
    /\ c.directories # <<>>
    /\ c.docs_dir.t = "str" /\ ~BadName(c.docs_dir.s)
    /\ \A name \in NamesIn(c.directories, c.top_level_files.items) : ~BadName(name)
    /\ \A k \in NumericKeys : c.numbering[k].t \in {"int", "bool"} /\ c.numbering[k].n >= 1
    /\ {c.numbering.enabled.t, c.use_markdown_headings.t, c.generate_mkdocs.t} = {"bool"}

\* C30: load_config rejects, with a DocumentationError, every mapping that has
\* zero directories, a docs_dir, directory name or file name that is empty or
\* contains '/' or '\', a numeric policy field below 1, or a non-boolean value in
\* use_numbered_prefix, use_markdown_headings or generate_mkdocs; and every
\* configuration it returns has at least one directory, well-formed names,
\* numeric fields of at least 1 and boolean flags.
C30_Original ==
    /\ (pc \in {"loaded", "rejected"} /\ data.file = "mapping" /\ BreaksConstraint(data))
          => pc = "rejected" /\ raised[1] = "DocumentationError"
    /\ pc = "loaded" => MeetsConstraints(config)

\* load_config raises for the file of this command.
ConfigRejected == load_config(data).exc # <<>>

\* C31: when loading or validating the configuration fails, the create command
\* returns exit code 1 on a DocumentationError, and at no time of the command is
\* a handler selected or a manager built, the migrator or a handler operation
\* invoked, a question asked or the file system changed.
C31_ConfigErrorBeforeAnyMutation ==
    ConfigRejected
        => /\ pc \in {"command", "exited"}
           /\ handler = "" /\ existing_dirs = <<>> /\ calls = <<>> /\ asked = <<>>
           /\ fs = fs0
           /\ pc = "exited" => exit_code = 1 /\ raised[1] = "DocumentationError"
\* prefix_step: "1" makes validate raise TypeError, which load_config replaces;
\* the command was started with --yes on a project that has docs/.
C31_Witness ==
    /\ pc = "exited" /\ exit_code = 1
    /\ data.prefix_step = PyStr(<<"1">>)
    /\ raised = <<"DocumentationError", "TypeError">>
    /\ args.yes /\ IsDir(fs, <<docs>>)

EndedWithoutMkDocs ==
    /\ pc \in {"exited", "crashed"}
    /\ handler # "" /\ error \in {"", "mkdocs"}
    /\ ~config.mkdocs
NoMkDocsYamlWritten == ~Exists(fs, project_root \o <<mkdocsYaml>>)

\* C33 as stated: without mkdocs_config no mkdocs.yaml is written and the create
\* command does not fail because of it, even when generate_mkdocs is true or
\* --mkdocs is given.
C33_Original == EndedWithoutMkDocs => NoMkDocsYamlWritten /\ exit_code = 0

\* C33: without mkdocs_config no mkdocs.yaml is written; the create command
\* returns 0 when generation was not requested and 1, after the structure was
\* created, when generate_mkdocs is true or --mkdocs is given.
C33_NoNavFileAndExitOneIfRequested ==
    EndedWithoutMkDocs
        => /\ NoMkDocsYamlWritten
           /\ pc = "exited"
           /\ exit_code = (IF args.mkdocs \/ config.generate_mkdocs THEN 1 ELSE 0)
           /\ error = "mkdocs" <=> (args.mkdocs \/ config.generate_mkdocs)
           /\ raised = <<>>
\* --yes --mkdocs with a file that has no mkdocs_config: docs/README.md was
\* created and the command returned 1.
C33_Witness ==
    /\ pc = "exited" /\ exit_code = 1 /\ error = "mkdocs"
    /\ args.mkdocs /\ args.yes /\ ~args.dry_run
    /\ data.mkdocs_config.t = "absent" /\ data.generate_mkdocs = Absent
    /\ ~IsFile(fs0, <<docs, README>>) /\ IsFile(fs, <<docs, README>>)

\* The copy step of _migrate_directory has completed: its source-removal question
\* is only asked after every file was copied.
CopyCompleted == \E j \in DOMAIN asked : asked[j].kind = "remove_source"
\* The operator was asked about a set of paths covering p: a confirmation of
\* remove_dir answered 'y', or the chooser of a group holding p.
ChoseToRemove(p) ==
    \E j \in DOMAIN asked :
        /\ \/ asked[j].kind = "handler_remove" /\ asked[j].said = 1
           \/ asked[j].kind = "keep"
        /\ \E q \in asked[j].paths : q = p \/ IsUnder(p, q)

\* C34 (as stated): when create_structure has finished, every file the migration
\* copied into the target is still there with the same content, unless the
\* operator chose to remove it.
C34_Original ==
    (pc = "done" /\ CopyCompleted)
        => \A p \in SourceFiles(fs0, old_dir) :
              \/ IsFile(fs, Landing(p)) /\ fs.files[Landing(p)] = fs0.files[p]
              \/ ChoseToRemove(Landing(p))

\* The content of the last create call made on path.
LastWritten(path) ==
    LET on == {i \in DOMAIN calls : calls[i].op = "create" /\ calls[i].path = path}
    IN calls[CHOOSE i \in on : \A j \in on : j <= i].content
\* C35: with SilentFileHandler, when create_structure has finished, nothing was
\* asked; every configured file is created at its final path whether or not a file
\* was there, and holds the content generated for it (the heading line or nothing),
\* so a file that was there has been replaced; docs/README.md is the one file
\* that is skipped when present, and then keeps its content.
C35_SilentOverwritesAllButReadme ==
    (handler = "silent" /\ pc = "done")
        => /\ asked = <<>>
           /\ \A n \in DOMAIN ConfiguredEntries(config) :
                 LET e == ConfiguredEntries(config)[n]
                     path == EntryPath(config, e)
                 IN /\ \E i \in DOMAIN calls :
                          /\ calls[i] = Call("create", path, FileContent(config, e.name),
                                             calls[i].by, calls[i].existed)
                          /\ IsFile(fs0, path) => calls[i].existed
                    /\ IsFile(fs, path)
                    /\ fs.files[path] = LastWritten(path)
                    /\ path # ReadmePath
           /\ IsFile(fs0, ReadmePath)
                 => /\ fs.files[ReadmePath] = fs0.files[ReadmePath]
                    /\ \A i \in DOMAIN calls : calls[i].path # ReadmePath
\* docs/index.md held other text and now holds the heading line; README.md was
\* there and is as it was.
C35_Witness ==
    /\ handler = "silent"
    /\ pc = "done"
    /\ ~config.numbering.enabled
    /\ config.use_markdown_headings
    /\ IsFile(fs0, <<docs, indexMd>>)
    /\ fs0.files[<<docs, indexMd>>] = <<"I", "0">>
    /\ fs.files[<<docs, indexMd>>] = HeadingLine(indexMd)
    /\ fs.files[<<docs, README>>] = <<"R", "0">>
    /\ asked = <<>>

\* The calls reconciliation made to remove a lone directory.
SingleRemovals == {i \in DOMAIN calls : calls[i].op = "remove_dir" /\ calls[i].by = "single"}
\* The subdirectories the target had when reconciliation listed it: those it has
\* when reconciliation is over and those remove_dir was called on meanwhile.
ListedDirs ==
    {d \in Iterdir(fs, Target) : IsDir(fs, d)}
        \cup {calls[i].path : i \in {j \in DOMAIN calls : calls[j].op = "remove_dir"
                                                           /\ calls[j].by # "migrate"}}
Alone(d) == \A e \in ListedDirs \ {d} : get_base_name(e) # get_base_name(d)
\* C36: with numbering enabled, when reconciliation is over, remove_dir has been
\* called on every immediate subdirectory of the target that is not '.git', has no
\* numeric prefix and shares its base name with no other, configured or not, and
\* on no other lone directory; with docs_dir '.', the target is the project root.
C36_LoneUnnumberedAreRemoved ==
    (pc = "directories" /\ config.numbering.enabled)
        => /\ \A d \in ListedDirs :
                 (Alone(d) /\ Name(d) # git /\ ~HasNumber(Name(d)))
                    <=> \E i \in SingleRemovals : calls[i].path = d
           /\ Target = (IF config.docs_dir = dot THEN project_root ELSE <<docs>>)
\* docs_dir '.', numbering on, --yes: tools/ with its notes.txt is gone from the
\* project root, .git/ is still there.
C36_Witness ==
    /\ pc = "directories"
    /\ config.numbering.enabled
    /\ config.docs_dir = dot
    /\ handler = "silent"
    /\ IsFile(fs0, <<tools, notes \o txt>>)
    /\ \E i \in SingleRemovals : calls[i].path = <<tools>>
    /\ ~Exists(fs, <<tools>>)
    /\ IsDir(fs, <<git>>)
    /\ asked = <<>>

\* Neither of the two directories is the other or lies below it.
Disjoint(a, b) == a # b /\ ~IsUnder(a, b) /\ ~IsUnder(b, a)
\* A candidate find_isms_directories returned lies inside the target.
CandidateInTarget(d) == d \in Range(existing_dirs) /\ IsUnder(d, Target)
FailedOnTargetFiles ==
    /\ pc = "failed"
    /\ error = "target_has_files"
    /\ asked = <<>>
    /\ fs = fs0
\* C37 (as stated): whenever _migrate_directory runs, source and target are
\* disjoint; when a candidate lies inside the target, handle_directory_change
\* fails with 'already exists and contains files' before any prompt or copy.
C37_Original ==
    /\ pc \in {"copy", "ask_remove_source"} => Disjoint(old_dir, Target)
    /\ (pc # "start" /\ \E d \in Range(existing_dirs) : CandidateInTarget(d))
          => FailedOnTargetFiles
\* C37 (amended): whenever a file is about to be copied, source and target are
\* disjoint; when a candidate inside the target holds a regular file at any depth,
\* handle_directory_change fails with 'already exists and contains files' before
\* any prompt and with the file system untouched. A candidate inside the target
\* that holds no regular file (it matched through a directory named *.md) does
\* not make it fail: then _migrate_directory can run with its source inside the
\* target, and has no file to copy.
C37_DisjointWhenFilesAreCopied ==
    /\ pc = "copy" => Disjoint(old_dir, Target)
    /\ (pc # "start" /\ \E d \in Range(existing_dirs) :
                            CandidateInTarget(d) /\ SourceFiles(fs0, d) # {})
          => FailedOnTargetFiles
    /\ (pc \in {"copy", "ask_remove_source"} /\ ~Disjoint(old_dir, Target))
          => /\ IsUnder(old_dir, Target)
             /\ SourceFiles(fs0, old_dir) = {}
             /\ ~HasContent(fs0, Target)
\* Target docs/, candidate docs/isms with procedures/q.md: failed at once.
C37_Witness ==
    /\ FailedOnTargetFiles
    /\ config.docs_dir = docs
    /\ existing_dirs = << <<docs, isms>> >>
    /\ IsFile(fs, <<docs, isms, procedures, <<"q">> \o md>>)

\* The second create_structure call has returned.
SecondCallDone == run = 2 /\ pc = "done"
RemoveDirCallsMade == {i \in DOMAIN calls : calls[i].op = "remove_dir"}
NothingPicked == \A j \in DOMAIN asked : asked[j].said = 0
\* path is where a configured directory goes.
ConfiguredDirectory(path) ==
    \E idx \in DOMAIN config.directories :
        path = get_directory_path(config, Target, config.directories[idx].name, idx)
Returned == pc \in {"done", "failed"}
\* How many times the operator was asked a question of the kind about the paths.
TimesAsked(kind, paths) ==
    Cardinality({j \in DOMAIN asked : asked[j].kind = kind /\ asked[j].paths = paths})
\* No question is put twice: the migrator's three questions at most once each,
\* the chooser at most once for a group and never for two groups that share a
\* directory, and the handler's confirmation at most once per remove_dir call.
NoQuestionTwice ==
    /\ \A kind \in {"select", "migrate", "remove_source"} :
          Cardinality({j \in DOMAIN asked : asked[j].kind = kind}) <= 1
    /\ \A i, j \in DOMAIN asked :
          (i < j /\ asked[i].kind = "keep" /\ asked[j].kind = "keep")
             => asked[i].paths \cap asked[j].paths = {}
    /\ \A j \in DOMAIN asked :
          asked[j].kind = "handler_remove"
             => TimesAsked("handler_remove", asked[j].paths)
                   <= Cardinality({i \in DOMAIN calls :
                                      calls[i].op = "remove_dir" /\ {calls[i].path} = asked[j].paths})
\* C39: when every prompt is answered (by text, end of input or interrupt) and
\* every file-system call returns, create_structure eventually returns or raises,
\* and what it raises is a DocumentationError; a step that reads an answer never
\* leaves the run at the same question, whatever the answer; and no question is
\* put twice.
C39_Terminates ==
    /\ <>Returned
    /\ [](pc = "failed" => (raised # <<>> /\ raised[1] = "DocumentationError"))
    /\ [][asked' # asked
             => /\ Len(asked') = Len(asked) + 1
                /\ \/ pc' # pc
                   \/ pc = "ask_handler_remove" /\ Len(calls') = Len(calls) + 1]_vars
    /\ []NoQuestionTwice
\* An interactive run that returned after 'x' at the candidate chooser and two
\* more questions.
C39_Witness ==
    /\ pc = "done"
    /\ handler = "interactive"
    /\ Len(asked) >= 3
    /\ asked[1].kind = "select"
    /\ asked[1].said = 0
    /\ \E j \in DOMAIN asked : asked[j].kind = "handler_remove"

\* The configured files of one parent collection: the top-level files (dir 0) or
\* the files of the directory at position dir.
SameParent(e1, e2) == e1.dir = e2.dir
\* C40: with numbering enabled, two configured files at different positions of
\* the same parent collection get different final names and so different paths,
\* also when their sanitized names are equal; no configured create is made on a
\* path an earlier configured create of the run was made on, and when the run is
\* done every configured file is there with its own content.
C40_DistinctNumberedNames ==
    config.numbering.enabled
        => LET entries == ConfiguredEntries(config)
               made == SelectSeq(calls, IsConfiguredCreate)
           IN /\ \A m, n \in DOMAIN entries :
                    (m # n /\ SameParent(entries[m], entries[n]))
                       => /\ FinalName(config, entries[m].name, entries[m].pos)
                                # FinalName(config, entries[n].name, entries[n].pos)
                          /\ EntryPath(config, entries[m]) # EntryPath(config, entries[n])
              /\ \A i, j \in DOMAIN made : i # j => made[i].path # made[j].path
              /\ (pc = "done" /\ handler # "dryrun")
                    => \A n \in DOMAIN entries :
                          /\ IsFile(fs, EntryPath(config, entries[n]))
                          /\ fs.files[EntryPath(config, entries[n])]
                                = FileContent(config, entries[n].name)
\* 'Get Started.md' and 'get-started.md' of guides both sanitize to
\* get-started.md and were created as 010_get-started.md and 020_get-started.md.
C40_Witness ==
    /\ pc = "done"
    /\ handler = "silent"
    /\ config.numbering.enabled
    /\ config.numbering.prefix_step = 10
    /\ config.numbering.padding_width = 3
    /\ config.directories[1].files = <<getStartedTitle, getStarted>>
    /\ sanitize(getStartedTitle) = sanitize(getStarted)
    /\ \E d \in Iterdir(fs, <<docs>>) :
          /\ IsFile(fs, d \o <<<<"0", "1", "0", "_">> \o getStarted>>)
          /\ IsFile(fs, d \o <<<<"0", "2", "0", "_">> \o getStarted>>)

====
